---- MODULE Spec2Model ----
(***************************************************************************)
(* Verification model of Mqtt-Palooza's core:                              *)
(*   - MessageBus (subscribe / publish / _check_compliance),               *)
(*   - NeuralMessage.to_binary / from_binary (msgpack wire codec),         *)
(*   - DarwinOrchestrator (start / stop / submit_mutation /                *)
(*     _evolution_processor) with Darwin3Enforcer.apply_mutation,          *)
(*   - Darwin3Enforcer used directly (review_mutation, apply_mutation,     *)
(*     _create_signature) and the create_darwin_mutation factory,          *)
(*   - ContextRefiner.refine_en_route.                                     *)
(* Strings that the code scans character by character are sequences of     *)
(* one-character strings.                                                  *)
(***************************************************************************)
EXTENDS Integers, Sequences, FiniteSets, TLC

VARIABLES
    \* ---- MessageBus ----
    subscribers,       \* topic -> ordered handler list
    message_history,   \* list of envelopes
    lastResult,        \* outcome of the last publish call ("none" before any)
    lastMsg,           \* envelope of the last publish call
    calls,             \* handlers invoked by the last publish call, in order
    raisedIn,          \* handlers that raised during the last publish call
    accepted,          \* every envelope appended to the history so far, in order
    nPublish,          \* number of publish calls made
    subLog,            \* every subscribe call made, in order: <<topic, handler>>
    \* ---- wire codec ----
    env,               \* the envelope being encoded
    wire,              \* result of to_binary
    decoded,           \* result of from_binary
    cpc,               \* codec position: "new" | "encoded" | "decoded"
    \* ---- DarwinOrchestrator ----
    running,           \* self.running
    loops,             \* one entry per task created by start(): its position
    evolution_tasks,   \* asyncio.Queue contents: mutation indices, FIFO
    mutations,         \* every DarwinMutation built by submit_mutation, by index
    active_mutations,  \* self.active_mutations (mutation indices)
    mutation_log,      \* darwin3.mutation_log (mutation indices)
    signature_history, \* darwin3.signature_history
    getCount,          \* per mutation: number of times queue.get() returned it
    applyCount,        \* per mutation: number of apply_mutation calls on it
    dropped,           \* dequeued mutations that were not added to active_mutations
    pendingStop,       \* loops that were waiting at a stop() and have not polled since
    \* ---- Darwin3Enforcer called directly ----
    applyResult,       \* return value of the last apply_mutation call
    candidate,         \* the dict handed to review_mutation
    reviewed,          \* the ConstitutionalReview it returned
    sigIn,             \* two signature inputs (lineage, component, environment)
    sigOut,            \* the two signatures computed from them
    \* ---- ContextRefiner ----
    envelope,          \* the envelope handed to refine_en_route
    refinement_stats,  \* ContextRefiner.refinement_stats
    refineOutcome,     \* how the last refine_en_route call ended
    \* ---- one call of a function under check ----
    callArgs,          \* the arguments (and the collaborator's behaviour)
    callResult,        \* what the call returned or raised
    \* ---- Darwin1Algorithm.run_evolution ----
    config,            \* Darwin1Config
    current_population, \* the current population
    gen,               \* generations completed
    best_solution,     \* best_solution of run_evolution
    best_fitness,      \* best_fitness of run_evolution
    history,           \* history of run_evolution
    evolved,           \* what the last evolve call did
    \* ---- object identity of envelopes' collections ----
    heap,              \* address -> contents of a list or dict object
    objects,           \* the envelopes built so far: field -> address
    \* ---- DarwinLLM ----
    evolution_history  \* self.evolution_history

busVars   == <<subscribers, message_history, lastResult, lastMsg, calls, raisedIn,
               accepted, nPublish, subLog>>
codecVars == <<env, wire, decoded, cpc>>
orchVars  == <<running, loops, evolution_tasks, mutations, active_mutations,
               mutation_log, signature_history, getCount, applyCount, dropped,
               pendingStop>>
tier3Vars  == <<applyResult, candidate, reviewed, sigIn, sigOut>>
refineVars == <<envelope, refinement_stats, refineOutcome>>
callVars   == <<callArgs, callResult>>
tier1Vars  == <<config, current_population, gen, best_solution, best_fitness, history,
                evolved>>
heapVars   == <<heap, objects>>
tier2Vars  == <<evolution_history>>
vars      == <<busVars, codecVars, orchVars, tier3Vars, refineVars, callVars,
               tier1Vars, heapVars, tier2Vars>>

(***************************************************************************)
(* Generic helpers                                                         *)
(***************************************************************************)
SeqToSet(s) == {s[i] : i \in 1..Len(s)}

\* the last n elements of s (all of s when it is shorter)
LastN(s, n) == IF Len(s) <= n THEN s ELSE SubSeq(s, Len(s) - n + 1, Len(s))

\* python "word in text" for strings: word occurs as a contiguous substring
Contains(text, word) ==
    \E i \in 0..(Len(text) - Len(word)) :
        \A j \in 1..Len(word) : text[i + j] = word[j]

(***************************************************************************)
(* MessageBus                                                              *)
(***************************************************************************)
max_history == 1000

Topics   == {"scrape/request", "llm/request"}
Handlers == {"hA", "hB"}

\* payload texts the bus is exercised with (values of the payload's 'text' key)
TextOk       == <<"o", "k">>
TextPassword == <<"p", "a", "s", "s", "w", "o", "r", "d">>
TextSecret   == <<"S", "e", "c", "r", "e", "t">>
TextApiKey   == <<"a", "p", "i", "_", "k", "e", "y">>
PayloadTexts == {TextOk, TextPassword, TextSecret, TextApiKey}

\* the restricted words of _check_compliance
restricted == {<<"p", "a", "s", "s", "w", "o", "r", "d">>,
               <<"s", "e", "c", "r", "e", "t">>,
               <<"a", "p", "i", "_", "k", "e", "y">>}

\* str.lower() on one character
LowerChar(c) == CASE c = "S" -> "s"
                  [] c = "P" -> "p"
                  [] c = "A" -> "a"
                  [] OTHER   -> c

Lower(text) == [i \in 1..Len(text) |-> LowerChar(text[i])]

\* str(payload) for a payload {'text': <text>}
StrPayload(payload) ==
    <<"{", "'", "t", "e", "x", "t", "'", ":", " ", "'">> \o payload.text \o <<"'", "}">>

\* the lowercase string form of the payload contains no restricted word
HasNoRestrictedSubstring(message) ==
    ~ \E w \in restricted : Contains(Lower(StrPayload(message.payload)), w)

\* MessageBus._check_compliance: the loop variable ranges over the CHARACTERS
\* of str(payload).lower(); each one is looked up in the list of restricted
\* words.  A one-character string is compared with whole words.
check_compliance(message) ==
    LET s == Lower(StrPayload(message.payload))
    IN  ~ \E i \in 1..Len(s) : <<s[i]>> \in restricted

\* the "for handler in ...: try: handler(message) except Exception: print"
\* loop of publish.  raising = the handlers that raise on this call.
\* Result: the invocations made, the failures caught, and whether an
\* exception escaped the loop.
RECURSIVE DispatchAbort(_, _)
DispatchAbort(hs, raising) ==
    IF hs = <<>> THEN [calls |-> <<>>, errors |-> <<>>, ok |-> TRUE]
    ELSE IF Head(hs) \in raising
         THEN [calls |-> <<Head(hs)>>, errors |-> <<Head(hs)>>, ok |-> FALSE]
         ELSE LET rest == DispatchAbort(Tail(hs), raising)
              IN  [calls |-> <<Head(hs)>> \o rest.calls, errors |-> rest.errors,
                   ok |-> rest.ok]

RECURSIVE Dispatch(_, _)
Dispatch(hs, raising) ==
    IF hs = <<>> THEN [calls |-> <<>>, errors |-> <<>>, ok |-> TRUE]
    ELSE LET rest == Dispatch(Tail(hs), raising)
         IN  [calls  |-> <<Head(hs)>> \o rest.calls,
              errors |-> IF Head(hs) \in raising THEN <<Head(hs)>> \o rest.errors
                                                 ELSE rest.errors,
              ok     |-> rest.ok]

\* self.subscribers.get(message.topic, [])
HandlersOf(subs, topic) == IF topic \in DOMAIN subs THEN subs[topic] ELSE <<>>

\* message_history.append(message); if len > max_history: pop(0)
AppendHistoryDropNewest(hist, message) ==
    LET h == Append(hist, message)
    IN  IF Len(h) > max_history THEN SubSeq(h, 1, Len(h) - 1) ELSE h

AppendHistory(hist, message) ==
    LET h == Append(hist, message)
    IN  IF Len(h) > max_history THEN Tail(h) ELSE h

\* MessageBus.subscribe: create the topic's list if absent, then append
AddSubscriberDedup(subs, topic, handler) ==
    IF topic \in DOMAIN subs
    THEN IF handler \in SeqToSet(subs[topic])
         THEN subs
         ELSE [subs EXCEPT ![topic] = Append(@, handler)]
    ELSE [t \in DOMAIN subs \cup {topic} |-> IF t = topic THEN <<handler>> ELSE subs[t]]

AddSubscriber(subs, topic, handler) ==
    IF topic \in DOMAIN subs
    THEN [subs EXCEPT ![topic] = Append(@, handler)]
    ELSE [t \in DOMAIN subs \cup {topic} |-> IF t = topic THEN <<handler>> ELSE subs[t]]

Subscribe(topic, handler) ==
    /\ subscribers' = AddSubscriber(subscribers, topic, handler)
    /\ subLog' = Append(subLog, <<topic, handler>>)
    /\ UNCHANGED <<message_history, lastResult, lastMsg, calls, raisedIn, accepted, nPublish>>
    /\ UNCHANGED <<codecVars, orchVars, tier3Vars, refineVars, callVars, tier1Vars, heapVars, tier2Vars>>

\* MessageBus.publish
Publish(message, raising) ==
    /\ lastMsg' = message
    /\ nPublish' = nPublish + 1
    /\ IF ~ check_compliance(message)
       THEN /\ lastResult' = "false"
            /\ calls' = <<>>
            /\ raisedIn' = {}
            /\ UNCHANGED <<message_history, accepted>>
       ELSE LET d == Dispatch(HandlersOf(subscribers, message.topic), raising)
            IN  /\ calls' = d.calls
                /\ raisedIn' = SeqToSet(d.errors)
                /\ IF d.ok
                   THEN /\ message_history' = AppendHistory(message_history, message)
                        /\ accepted' = Append(accepted, message)
                        /\ lastResult' = "true"
                   ELSE /\ lastResult' = "exception"
                        /\ UNCHANGED <<message_history, accepted>>
    /\ UNCHANGED <<subscribers, subLog>>
    /\ UNCHANGED <<codecVars, orchVars, tier3Vars, refineVars, callVars, tier1Vars, heapVars, tier2Vars>>

(***************************************************************************)
(* States after construction                                               *)
(***************************************************************************)
\* placeholder for "no publish call yet"
NoMessage == [id |-> 0, topic |-> "", payload |-> [text |-> <<>>]]

\* MessageBus.__init__
BusInit ==
    /\ subscribers = <<>>
    /\ message_history = <<>>
    /\ lastResult = "none"
    /\ lastMsg = NoMessage
    /\ calls = <<>>
    /\ raisedIn = {}
    /\ accepted = <<>>
    /\ nPublish = 0
    /\ subLog = <<>>

\* no envelope is being encoded
CodecIdle ==
    /\ env = "none"
    /\ wire = "none"
    /\ decoded = "none"
    /\ cpc = "idle"

\* DarwinOrchestrator.__init__ and Darwin3Enforcer.__init__
OrchInit ==
    /\ running = FALSE
    /\ loops = <<>>
    /\ evolution_tasks = <<>>
    /\ mutations = <<>>
    /\ active_mutations = <<>>
    /\ mutation_log = <<>>
    /\ signature_history = <<>>
    /\ getCount = <<>>
    /\ applyCount = <<>>
    /\ dropped = {}
    /\ pendingStop = {}

\* no direct call on a Darwin3Enforcer has been made
Tier3Idle ==
    /\ applyResult = "none"
    /\ candidate = "none"
    /\ reviewed = "none"
    /\ sigIn = "none"
    /\ sigOut = "none"

\* no envelope is being refined
RefineIdle ==
    /\ envelope = "none"
    /\ refinement_stats = "none"
    /\ refineOutcome = "none"

\* no DarwinLLM is in use
Tier2Idle == evolution_history = "none"

\* no function is being called on its own
CallIdle ==
    /\ callArgs = "none"
    /\ callResult = "none"

\* no run_evolution is in progress
Tier1Idle ==
    /\ config = "none"
    /\ current_population = "none"
    /\ gen = 0
    /\ best_solution = "none"
    /\ best_fitness = "none"
    /\ history = "none"
    /\ evolved = "none"

\* no envelope object has been built
HeapIdle ==
    /\ heap = <<>>
    /\ objects = <<>>

(***************************************************************************)
(* SpecBus: subscribe and publish calls in any order                       *)
(***************************************************************************)
MaxSubscribe == 3
MaxPublish   == 2

BusMessages ==
    {[id |-> 1, topic |-> t, payload |-> [text |-> x]] : t \in Topics, x \in PayloadTexts}

InitBus ==
    /\ BusInit /\ Tier2Idle /\ CallIdle /\ Tier1Idle /\ HeapIdle
    /\ CodecIdle /\ OrchInit /\ Tier3Idle /\ RefineIdle

DoSubscribe ==
    /\ Len(subLog) < MaxSubscribe
    /\ \E t \in Topics, h \in Handlers : Subscribe(t, h)

DoPublish ==
    /\ nPublish < MaxPublish
    /\ \E m \in BusMessages, raising \in SUBSET Handlers : Publish(m, raising)

NextBus == DoSubscribe \/ DoPublish

SpecBus == InitBus /\ [][NextBus]_vars

(***************************************************************************)
(* SpecHist: a long run of publish calls, envelope n carrying id n         *)
(***************************************************************************)
MaxPublishHist == 1003

DoPublishNumbered ==
    /\ nPublish < MaxPublishHist
    /\ Publish([id |-> nPublish + 1, topic |-> "scrape/request",
                payload |-> [text |-> TextOk]], {})

NextHist == DoPublishNumbered

SpecHist == InitBus /\ [][NextHist]_vars

(***************************************************************************)
(* Claims about the MessageBus                                             *)
(***************************************************************************)
\* the handlers subscribed to a topic, in the order of the subscribe calls
RECURSIVE SubscribedInOrder(_, _)
SubscribedInOrder(log, topic) ==
    IF log = <<>> THEN <<>>
    ELSE IF Head(log)[1] = topic
         THEN <<Head(log)[2]>> \o SubscribedInOrder(Tail(log), topic)
         ELSE SubscribedInOrder(Tail(log), topic)

\* C1 (as claimed): a publish whose payload's lowercase string form contains
\* 'password', 'secret' or 'api_key' returns failure, runs no handler and is
\* not recorded in the history.
C1_RestrictedPayloadRejected ==
    /\ (lastResult # "none" /\ ~ HasNoRestrictedSubstring(lastMsg))
          => (lastResult = "false" /\ calls = <<>>)
    /\ \A i \in 1..Len(message_history) : HasNoRestrictedSubstring(message_history[i])

\* C2: when a handler raises during publish, all handlers of the topic
\* (those after the failing one included) are still invoked in that call,
\* the envelope is appended to the history and publish returns success.
C2_HandlerFailureIsolated ==
    [][(nPublish' # nPublish /\ raisedIn' # {})
         => /\ calls' = SubscribedInOrder(subLog, lastMsg'.topic)
            /\ lastResult' = "true"
            /\ Len(message_history') > 0
            /\ message_history'[Len(message_history')] = lastMsg'
            /\ accepted' = Append(accepted, lastMsg')]_vars

\* a failing handler was followed by a sibling that still ran, and the
\* envelope was recorded
C2_Witness ==
    /\ lastResult = "true"
    /\ Len(calls) >= 2
    /\ calls[1] \in raisedIn
    /\ calls[2] \notin raisedIn
    /\ message_history # <<>>
    /\ message_history[Len(message_history)] = lastMsg

\* C3: an accepted publish invokes exactly the handlers subscribed to the
\* envelope's topic, once per subscription, in the order of the subscribe
\* calls, before it returns; and no step removes or reorders a subscription.
C3_DispatchInSubscriptionOrder ==
    [][/\ (nPublish' # nPublish /\ lastResult' = "true")
            => calls' = SubscribedInOrder(subLog, lastMsg'.topic)
       /\ \A t \in DOMAIN subscribers :
            /\ t \in DOMAIN subscribers'
            /\ Len(subscribers'[t]) >= Len(subscribers[t])
            /\ SubSeq(subscribers'[t], 1, Len(subscribers[t])) = subscribers[t]]_vars

\* one handler subscribed twice to the published topic ran twice, while a
\* handler of the other topic did not run
C3_Witness ==
    /\ lastResult = "true"
    /\ calls = <<"hA", "hA">>
    /\ \E t \in DOMAIN subscribers : t # lastMsg.topic /\ subscribers[t] = <<"hB">>

\* C4: the history never holds more than max_history envelopes and always
\* equals the most recently accepted envelopes, in acceptance order.
C4_HistoryBoundedFifo ==
    /\ Len(message_history) <= max_history
    /\ message_history = LastN(accepted, max_history)

\* the capacity was exceeded and the oldest envelopes are gone
C4_Witness ==
    /\ Len(accepted) > max_history
    /\ Len(message_history) = max_history
    /\ message_history[1].id = Len(accepted) - max_history + 1

(***************************************************************************)
(* Wire codec: NeuralMessage.to_binary / from_binary over msgpack           *)
(*                                                                         *)
(* Python values are tagged records:                                       *)
(*   [k |-> "none"]  [k |-> "bool", b]  [k |-> "int", i]                   *)
(*   [k |-> "float", milli]  (the float milli/1000)   [k |-> "str", s]     *)
(*   [k |-> "list", items]  [k |-> "tuple", items]                         *)
(*   [k |-> "dict", pairs]  (pairs = sequence of <<key, value>>)           *)
(* msgpack values are tagged records with field w.                         *)
(***************************************************************************)
PyNone        == [k |-> "none"]
PyBool(b)     == [k |-> "bool", b |-> b]
PyInt(i)      == [k |-> "int", i |-> i]
PyFloat(m)    == [k |-> "float", milli |-> m]
PyStr(x)      == [k |-> "str", s |-> x]
PyList(xs)    == [k |-> "list", items |-> xs]
PyTuple(xs)   == [k |-> "tuple", items |-> xs]
PyDict(ps)    == [k |-> "dict", pairs |-> ps]

\* msgpack.packb on one value: list and tuple both become an array
RECURSIVE Pack(_)
Pack(v) ==
    CASE v.k = "none"  -> [w |-> "nil"]
      [] v.k = "bool"  -> [w |-> "bool", b |-> v.b]
      [] v.k = "int"   -> [w |-> "int", i |-> v.i]
      [] v.k = "float" -> [w |-> "float64", milli |-> v.milli]
      [] v.k = "str"   -> [w |-> "str", s |-> v.s]
      [] v.k \in {"list", "tuple"} ->
            [w |-> "array", items |-> [n \in 1..Len(v.items) |-> Pack(v.items[n])]]
      [] v.k = "dict"  ->
            [w |-> "map", pairs |-> [n \in 1..Len(v.pairs) |->
                                       <<Pack(v.pairs[n][1]), Pack(v.pairs[n][2])>>]]

\* msgpack.unpackb on one value: an array becomes a list
RECURSIVE Unpack(_)
Unpack(x) ==
    CASE x.w = "nil"     -> PyNone
      [] x.w = "bool"    -> PyBool(x.b)
      [] x.w = "int"     -> PyInt(x.i)
      [] x.w = "float64" -> PyFloat(x.milli)
      [] x.w = "str"     -> PyStr(x.s)
      [] x.w = "array"   -> PyList([n \in 1..Len(x.items) |-> Unpack(x.items[n])])
      [] x.w = "map"     ->
            PyDict([n \in 1..Len(x.pairs) |->
                      <<Unpack(x.pairs[n][1]), Unpack(x.pairs[n][2])>>])

\* msgpack.unpackb raises ValueError on a map key that is not a string
\* (strict_map_key)
RECURSIVE UnpackRaises(_)
UnpackRaises(x) ==
    CASE x.w = "array" -> \E n \in 1..Len(x.items) : UnpackRaises(x.items[n])
      [] x.w = "map"   -> \E n \in 1..Len(x.pairs) :
                             \/ x.pairs[n][1].w # "str"
                             \/ UnpackRaises(x.pairs[n][2])
      [] OTHER         -> FALSE

\* class MessagePriority
Priorities == {"CRITICAL", "HIGH", "NORMAL", "LOW", "BATCH"}

PriorityValue(p) ==
    CASE p = "CRITICAL" -> 1
      [] p = "HIGH"     -> 2
      [] p = "NORMAL"   -> 3
      [] p = "LOW"      -> 4
      [] p = "BATCH"    -> 5

\* MessagePriority(value)
MessagePriority(v) == CHOOSE p \in Priorities : PriorityValue(p) = v

\* class FocusMode
FocusModes == {"RELEVANCE", "EXTRACTION", "ANALYSIS", "SUMMARIZATION",
               "REASONING", "CREATIVE", "VERIFICATION", "NAVIGATION"}

ModeValue(m) ==
    CASE m = "RELEVANCE"     -> "relevance"
      [] m = "EXTRACTION"    -> "extraction"
      [] m = "ANALYSIS"      -> "analysis"
      [] m = "SUMMARIZATION" -> "summarize"
      [] m = "REASONING"     -> "reasoning"
      [] m = "CREATIVE"      -> "creative"
      [] m = "VERIFICATION"  -> "verify"
      [] m = "NAVIGATION"    -> "navigation"

\* FocusMode(value)
FocusMode(v) == CHOOSE m \in FocusModes : ModeValue(m) = v

\* MessageFocus() with every argument defaulted (__post_init__ applied)
DefaultFocus ==
    [mode               |-> "EXTRACTION",
     target_entities    |-> PyList(<<>>),
     relevance_threshold |-> PyFloat(700),
     max_tokens         |-> PyInt(4096),
     keywords           |-> PyList(<<>>),
     negative_keywords  |-> PyList(<<>>)]

\* MessageFocus.to_dict, packed
FocusToWire(f) ==
    [mode                |-> Pack(PyStr(ModeValue(f.mode))),
     target_entities     |-> Pack(f.target_entities),
     relevance_threshold |-> Pack(f.relevance_threshold),
     max_tokens          |-> Pack(f.max_tokens),
     keywords            |-> Pack(f.keywords),
     negative_keywords   |-> Pack(f.negative_keywords)]

\* NeuralMessage.to_binary: the tagged record handed to msgpack.packb.
\* context.compression_ratio and context.timestamp are not part of it.
to_binaryWithRatio(m) ==
    [id   |-> Pack(m.id),
     t    |-> Pack(m.topic),
     p    |-> Pack(PyInt(PriorityValue(m.priority))),
     f    |-> FocusToWire(m.focus),
     pl   |-> Pack(m.payload),
     c    |-> [os |-> Pack(m.context.original_size),
               cs |-> Pack(m.context.current_size),
               cr |-> Pack(m.context.compression_ratio),
               rs |-> Pack(m.context.relevance_score),
               fe |-> Pack(m.context.filtered_elements),
               fm |-> Pack(PyStr(ModeValue(m.context.focus_mode))),
               h  |-> Pack(m.context.hops),
               r  |-> Pack(m.context.refinements)],
     s    |-> Pack(m.source),
     d    |-> Pack(m.destination),
     ts   |-> Pack(m.timestamp),
     ttl  |-> Pack(m.ttl_seconds),
     ack  |-> Pack(m.requires_ack),
     corr |-> Pack(m.correlation_id),
     cc   |-> Pack(m.constitutional_compliance)]

to_binary(m) ==
    [id   |-> Pack(m.id),
     t    |-> Pack(m.topic),
     p    |-> Pack(PyInt(PriorityValue(m.priority))),
     f    |-> FocusToWire(m.focus),
     pl   |-> Pack(m.payload),
     c    |-> [os |-> Pack(m.context.original_size),
               cs |-> Pack(m.context.current_size),
               rs |-> Pack(m.context.relevance_score),
               fe |-> Pack(m.context.filtered_elements),
               fm |-> Pack(PyStr(ModeValue(m.context.focus_mode))),
               h  |-> Pack(m.context.hops),
               r  |-> Pack(m.context.refinements)],
     s    |-> Pack(m.source),
     d    |-> Pack(m.destination),
     ts   |-> Pack(m.timestamp),
     ttl  |-> Pack(m.ttl_seconds),
     ack  |-> Pack(m.requires_ack),
     corr |-> Pack(m.correlation_id),
     cc   |-> Pack(m.constitutional_compliance)]

\* the "if raw.get('f'): msg.focus = MessageFocus(...)" block of from_binary;
\* the focus record always has six keys, so the branch is always taken
DecodeFocusDefault(f) == DefaultFocus

DecodeFocus(f) ==
    [mode                |-> FocusMode(Unpack(f.mode).s),
     target_entities     |-> Unpack(f.target_entities),
     relevance_threshold |-> Unpack(f.relevance_threshold),
     max_tokens          |-> Unpack(f.max_tokens),
     keywords            |-> Unpack(f.keywords),
     negative_keywords   |-> Unpack(f.negative_keywords)]

\* the EnRouteContext(...) call of from_binary: compression_ratio keeps its
\* default 0.0 and timestamp is set to time.time() by __post_init__
DecodeContextFreshAudit(c, now) ==
    [original_size     |-> Unpack(c.os),
     current_size      |-> Unpack(c.cs),
     compression_ratio |-> PyFloat(0),
     relevance_score   |-> Unpack(c.rs),
     filtered_elements |-> Unpack(c.fe),
     focus_mode        |-> FocusMode(Unpack(c.fm).s),
     timestamp         |-> PyFloat(now),
     hops              |-> PyInt(0),
     refinements       |-> PyList(<<>>)]

DecodeContext(c, now) ==
    [original_size     |-> Unpack(c.os),
     current_size      |-> Unpack(c.cs),
     compression_ratio |-> PyFloat(0),
     relevance_score   |-> Unpack(c.rs),
     filtered_elements |-> Unpack(c.fe),
     focus_mode        |-> FocusMode(Unpack(c.fm).s),
     timestamp         |-> PyFloat(now),
     hops              |-> Unpack(c.h),
     refinements       |-> Unpack(c.r)]

DecodeError == [k |-> "error", s |-> "ValueError"]

\* NeuralMessage.from_binary; now = time.time() during the call
from_binary(data, now) ==
    IF UnpackRaises(data.pl) THEN DecodeError
    ELSE
    [k        |-> "message",
     id       |-> Unpack(data.id),
     topic    |-> Unpack(data.t),
     priority |-> MessagePriority(Unpack(data.p).i),
     focus    |-> DecodeFocus(data.f),
     payload  |-> Unpack(data.pl),
     context  |-> DecodeContext(data.c, now),
     source   |-> Unpack(data.s),
     destination |-> Unpack(data.d),
     timestamp   |-> IF Unpack(data.ts) = PyFloat(0) THEN PyFloat(now)
                                                     ELSE Unpack(data.ts),
     ttl_seconds  |-> Unpack(data.ttl),
     requires_ack |-> Unpack(data.ack),
     correlation_id |-> Unpack(data.corr),
     constitutional_compliance |-> Unpack(data.cc)]

\* ---- the envelopes the codec is exercised with ----
PayloadEmpty  == PyDict(<<>>)
PayloadText   == PyDict(<< <<PyStr("text"), PyStr("ok")>> >>)
PayloadList   == PyDict(<< <<PyStr("n"), PyInt(1)>>,
                          <<PyStr("links"), PyList(<<PyStr("a"), PyStr("b")>>)>> >>)
PayloadNested == PyDict(<< <<PyStr("data"),
                            PyDict(<< <<PyStr("score"), PyFloat(1500)>> >>)>> >>)
PayloadTuple  == PyDict(<< <<PyStr("pair"), PyTuple(<<PyStr("a"), PyStr("b")>>)>> >>)
PayloadIntKey == PyDict(<< <<PyInt(1), PyStr("a")>> >>)
CodecPayloads == {PayloadEmpty, PayloadText, PayloadList, PayloadNested,
                  PayloadTuple, PayloadIntKey}

RefinementEntry ==
    PyDict(<< <<PyStr("type"), PyStr("deduplication")>>,
              <<PyStr("original_size"), PyInt(4)>>,
              <<PyStr("filtered_size"), PyInt(3)>> >>)

CodecContexts ==
    {[original_size     |-> PyInt(0),
      current_size      |-> PyInt(0),
      compression_ratio |-> PyFloat(0),
      relevance_score   |-> PyFloat(0),
      filtered_elements |-> PyList(<<>>),
      focus_mode        |-> "EXTRACTION",
      timestamp         |-> PyFloat(999000),
      hops              |-> PyInt(0),
      refinements       |-> PyList(<<>>)],
     [original_size     |-> PyInt(40),
      current_size      |-> PyInt(30),
      compression_ratio |-> PyFloat(250),
      relevance_score   |-> PyFloat(600),
      filtered_elements |-> PyList(<<PyStr("debug_info")>>),
      focus_mode        |-> "RELEVANCE",
      timestamp         |-> PyFloat(999000),
      hops              |-> PyInt(2),
      refinements       |-> PyList(<<RefinementEntry>>)]}

CodecFocusLists == {PyList(<<>>), PyList(<<PyStr("price"), PyStr("title")>>)}

CodecEnvelopes ==
    {[k        |-> "message",
      id       |-> PyStr("a1b2c3d4"),
      topic    |-> PyStr("scrape/request"),
      priority |-> p,
      focus    |-> [mode                |-> fm,
                    target_entities     |-> fl,
                    relevance_threshold |-> PyFloat(700),
                    max_tokens          |-> PyInt(4096),
                    keywords            |-> fl,
                    negative_keywords   |-> PyList(<<>>)],
      payload  |-> pl,
      context  |-> cx,
      source   |-> PyStr("dashboard"),
      destination |-> PyStr("scraper-vm"),
      timestamp   |-> PyFloat(999000),
      ttl_seconds |-> PyInt(300),
      requires_ack |-> PyBool(TRUE),
      correlation_id |-> PyNone,
      constitutional_compliance |-> PyBool(TRUE)] :
        p \in Priorities, fm \in FocusModes, fl \in CodecFocusLists,
        pl \in CodecPayloads, cx \in CodecContexts}

\* values of time.time() during from_binary
CodecTimes == {1000000, 1000001}

InitCodec ==
    /\ BusInit /\ Tier2Idle /\ CallIdle /\ Tier1Idle /\ HeapIdle
    /\ OrchInit
    /\ Tier3Idle
    /\ RefineIdle
    /\ env \in CodecEnvelopes
    /\ wire = "none"
    /\ decoded = "none"
    /\ cpc = "new"

Encode ==
    /\ cpc = "new"
    /\ wire' = to_binary(env)
    /\ cpc' = "encoded"
    /\ UNCHANGED <<env, decoded>>
    /\ UNCHANGED <<busVars, orchVars, tier3Vars, refineVars, callVars, tier1Vars, heapVars, tier2Vars>>

Decode ==
    /\ cpc = "encoded"
    /\ \E now \in CodecTimes : decoded' = from_binary(wire, now)
    /\ cpc' = "decoded"
    /\ UNCHANGED <<env, wire>>
    /\ UNCHANGED <<busVars, orchVars, tier3Vars, refineVars, callVars, tier1Vars, heapVars, tier2Vars>>

NextCodec == Encode \/ Decode

SpecCodec == InitCodec /\ [][NextCodec]_vars

(***************************************************************************)
(* Claims about the codec                                                  *)
(***************************************************************************)
\* decode(encode(e)) has e's id, topic, priority, payload and focus fields
RoundTripCore ==
    /\ decoded.k = "message"
    /\ decoded.id = env.id
    /\ decoded.topic = env.topic
    /\ decoded.priority = env.priority
    /\ decoded.payload = env.payload
    /\ decoded.focus = env.focus

\* a value msgpack carries unchanged: no tuple, and only string keys in
\* mappings
RECURSIVE MsgpackNative(_)
MsgpackNative(v) ==
    CASE v.k \in {"list"} -> \A n \in 1..Len(v.items) : MsgpackNative(v.items[n])
      [] v.k = "tuple"    -> FALSE
      [] v.k = "dict"     -> \A n \in 1..Len(v.pairs) :
                                /\ v.pairs[n][1].k = "str"
                                /\ MsgpackNative(v.pairs[n][2])
      [] OTHER            -> TRUE

\* C5 (as claimed): for every envelope and any payload, decode(encode(e))
\* has the same id, topic, priority, payload and focus fields.
C5_RoundTripAnyPayload == (cpc = "decoded") => RoundTripCore

\* C5 (amended): the round trip reproduces id, topic, priority, payload and
\* focus fields for every envelope whose payload is built from values
\* msgpack carries unchanged (string-keyed mappings, lists, text, numbers,
\* booleans, None).
C5_RoundTripNativePayload ==
    (cpc = "decoded" /\ MsgpackNative(env.payload)) => RoundTripCore

\* a BATCH / summarization envelope with a nested payload and non-empty
\* focus lists went through encode and decode
C5_Witness ==
    /\ cpc = "decoded"
    /\ env.priority = "BATCH"
    /\ env.focus.mode = "SUMMARIZATION"
    /\ env.payload = PayloadNested
    /\ env.focus.keywords # PyList(<<>>)
    /\ decoded.k = "message"
    /\ decoded.payload = PayloadNested

(***************************************************************************)
(* Tier 3: Darwin3Enforcer                                                 *)
(* A payload (a python dict) is a TLA+ record; "key in payload" is         *)
(* membership in its DOMAIN.                                               *)
(***************************************************************************)
CONSTITUTION_MUST_HAVES ==
    <<"permeable_ai", "fastest_protocol", "dna_carried", "refine_en_route">>

CONSTITUTION_CANNOT_HAVES ==
    <<"vendor_lockin", "centralized_dead_man_switch", "black_box_ai",
      "single_point_of_failure">>

\* dict.get(key, default)
Get(dict, key, default) == IF key \in DOMAIN dict THEN dict[key] ELSE default

\* python truthiness of the values used in payloads
Truthy(v) == v = TRUE

\* Darwin3Enforcer._check_spirit
check_spiritRestrictiveOnly(mutation) ==
    IF ~Truthy(Get(mutation, "restrictive", FALSE)) THEN TRUE
    ELSE \/ Truthy(Get(mutation, "permeable_ai", FALSE))
         \/ "efficiency" \in DOMAIN mutation
         \/ "optimization" \in DOMAIN mutation

check_spirit(mutation) ==
    IF Truthy(Get(mutation, "restrictive", FALSE)) THEN FALSE
    ELSE \/ Truthy(Get(mutation, "permeable_ai", FALSE))
         \/ "efficiency" \in DOMAIN mutation
         \/ "optimization" \in DOMAIN mutation

\* ConstitutionalReview._calculate_approval_score, in hundredths
calculate_approval_score(approved, issues) ==
    IF ~ approved THEN 0
    ELSE LET Missing(x)  == x[1] = "Missing required"
             Violates(x) == x[1] = "Violates constraint"
             Spirit(x)   == x[1] = "Violates spirit"
             score == 100 - 10 * Len(SelectSeq(issues, Missing))
                          - 20 * Len(SelectSeq(issues, Violates))
                          - 15 * Len(SelectSeq(issues, Spirit))
         IN  IF score < 0 THEN 0 ELSE score

\* Darwin3Enforcer.review_mutation; an issue is <<kind, marker>>
review_mutationTruthyForbidden(mutation) ==
    LET IsMissing(r) == r \notin DOMAIN mutation
        IsPresent(f) == Truthy(Get(mutation, f, FALSE))
        missing   == SelectSeq(CONSTITUTION_MUST_HAVES, IsMissing)
        forbidden == SelectSeq(CONSTITUTION_CANNOT_HAVES, IsPresent)
        issues ==
            [n \in 1..Len(missing) |-> <<"Missing required", missing[n]>>]
            \o [n \in 1..Len(forbidden) |-> <<"Violates constraint", forbidden[n]>>]
            \o (IF check_spirit(mutation) THEN <<>>
                ELSE << <<"Violates spirit", "of open permeability">> >>)
    IN  [approved       |-> issues = <<>>,
         issues         |-> issues,
         approval_score |-> calculate_approval_score(issues = <<>>, issues)]

review_mutation(mutation) ==
    LET IsMissing(r) == r \notin DOMAIN mutation
        IsPresent(f) == f \in DOMAIN mutation
        missing   == SelectSeq(CONSTITUTION_MUST_HAVES, IsMissing)
        forbidden == SelectSeq(CONSTITUTION_CANNOT_HAVES, IsPresent)
        issues ==
            [n \in 1..Len(missing) |-> <<"Missing required", missing[n]>>]
            \o [n \in 1..Len(forbidden) |-> <<"Violates constraint", forbidden[n]>>]
            \o (IF check_spirit(mutation) THEN <<>>
                ELSE << <<"Violates spirit", "of open permeability">> >>)
    IN  [approved       |-> issues = <<>>,
         issues         |-> issues,
         approval_score |-> calculate_approval_score(issues = <<>>, issues)]

\* str.upper() on the component names in use
Upper(component) ==
    CASE component = "test_dna" -> "TEST_DNA"
      [] component = "dna"      -> "DNA"
      [] component = "context"  -> "CONTEXT"
      [] OTHER                  -> component

\* "|".join(parts), texts being sequences of characters
RECURSIVE Join(_, _)
Join(sep, parts) ==
    IF parts = <<>> THEN <<>>
    ELSE IF Len(parts) = 1 THEN parts[1]
    ELSE parts[1] \o sep \o Join(sep, Tail(parts))

\* the process environment: per upper-cased component name, whether
\* DARWIN_SECRET_<NAME> is set and to what text
Unset == [set |-> FALSE]
SetTo(text) == [set |-> TRUE, value |-> text]
NoEnviron == [name \in {"TEST_DNA", "DNA", "CONTEXT"} |-> Unset]

DefaultSecret == <<"d", "e", "f", "a", "u", "l", "t">>

\* os.getenv(f"DARWIN_SECRET_{name}", default)
Getenv(environ, name, default) ==
    IF environ[name].set THEN environ[name].value ELSE default

\* The body shared by Darwin3Enforcer._create_signature and
\* DarwinMutation.create_signature.  lineage holds str(x) of every parent
\* id followed by str(timestamp).  blake2b is taken to be collision-free:
\* the digest is represented by the text that is digested.
lineage_signature(lineage, component, environ) ==
    LET lineage_str == Join(<<"|">>, lineage)
        secret      == Getenv(environ, Upper(component), DefaultSecret)
    IN  [prefix    |-> "DARWIN",
         component |-> Upper(component),
         digest_of |-> lineage_str \o secret]

Digits == <<"0", "1", "2", "3", "4", "5", "6", "7", "8", "9">>

\* the text of the id of the n-th mutation built (a uuid4 prefix in the code)
IdText(n) == <<"a", Digits[n + 1]>>

\* str() of the creation time of the n-th mutation built (a float)
TimeText(n) == <<Digits[n + 1], ".", "0">>

\* Darwin3Enforcer._create_signature on a mutation record whose parent ids
\* and timestamp are mutation indices, in a process where no
\* DARWIN_SECRET_* variable is set
create_signature(component, mutation) ==
    lineage_signature(
              [n \in 1..Len(mutation.parent_mutations) |->
                   IdText(mutation.parent_mutations[n])]
              \o <<TimeText(mutation.timestamp)>>,
              component, NoEnviron)

NoReview    == [approved |-> FALSE, issues |-> <<>>, approval_score |-> -1]
NoSignature == [prefix |-> "", component |-> "", digest_of |-> <<>>]

\* Darwin3Enforcer.apply_mutation: the mutation after the call, whether it
\* was appended to mutation_log / signature_history (status) and the dict
\* the call returns (without its timestamp)
apply_mutationSignsRejected(component, mutation) ==
    LET review == review_mutation(mutation.payload)
        signature == create_signature(component, mutation)
    IN  IF ~ review.approved
        THEN [mutation |-> [mutation EXCEPT !.constitution_review = review,
                                            !.darwin_signature = signature],
              status   |-> "rejected",
              returned |-> [status |-> "rejected", issues |-> review.issues]]
        ELSE [mutation |-> [mutation EXCEPT
                               !.constitution_review = review,
                               !.darwin_signature = signature,
                               !.applied = TRUE],
              status   |-> "applied",
              returned |-> [status |-> "applied", signature |-> signature]]

apply_mutationLogsRejected(component, mutation) ==
    LET review == review_mutation(mutation.payload)
        signature == create_signature(component, mutation)
    IN  IF ~ review.approved
        THEN [mutation |-> [mutation EXCEPT !.constitution_review = review],
              status   |-> "applied",
              returned |-> [status |-> "rejected", issues |-> review.issues]]
        ELSE [mutation |-> [mutation EXCEPT
                               !.constitution_review = review,
                               !.darwin_signature = signature,
                               !.applied = TRUE],
              status   |-> "applied",
              returned |-> [status |-> "applied", signature |-> signature]]

apply_mutationNotMarked(component, mutation) ==
    LET review == review_mutation(mutation.payload)
        signature == create_signature(component, mutation)
    IN  IF ~ review.approved
        THEN [mutation |-> [mutation EXCEPT !.constitution_review = review],
              status   |-> "rejected",
              returned |-> [status |-> "rejected", issues |-> review.issues]]
        ELSE [mutation |-> [mutation EXCEPT
                               !.constitution_review = review,
                               !.darwin_signature = signature],
              status   |-> "applied",
              returned |-> [status |-> "applied", signature |-> signature]]

apply_mutationRestamps(component, mutation) ==
    LET review == review_mutation(mutation.payload)
        signature == create_signature(component, mutation)
    IN  IF ~ review.approved
        THEN [mutation |-> [mutation EXCEPT !.constitution_review = review],
              status   |-> "rejected",
              returned |-> [status |-> "rejected", issues |-> review.issues]]
        ELSE [mutation |-> [mutation EXCEPT
                               !.constitution_review = review,
                               !.darwin_signature = signature,
                               !.timestamp = @ + 1,
                               !.applied = TRUE],
              status   |-> "applied",
              returned |-> [status |-> "applied", signature |-> signature]]

apply_mutation(component, mutation) ==
    LET review == review_mutation(mutation.payload)
        signature == create_signature(component, mutation)
    IN  IF ~ review.approved
        THEN [mutation |-> [mutation EXCEPT !.constitution_review = review],
              status   |-> "rejected",
              returned |-> [status |-> "rejected", issues |-> review.issues]]
        ELSE [mutation |-> [mutation EXCEPT
                               !.constitution_review = review,
                               !.darwin_signature = signature,
                               !.applied = TRUE],
              status   |-> "applied",
              returned |-> [status |-> "applied", signature |-> signature]]

(***************************************************************************)
(* DarwinOrchestrator                                                      *)
(***************************************************************************)
Component == "test_dna"

EvolutionTypes == {"DNA_OPTIMIZATION", "CONTEXT_REFINEMENT", "STRATEGY"}

\* DarwinLLMConfig.min_samples_for_evolution
min_samples_for_evolution == 10

\* _evolution_processor's if / elif / else on evolution_type
Route(mutation) ==
    IF mutation.evolution_type = "DNA_OPTIMIZATION" THEN "run_evolution"
    ELSE IF mutation.evolution_type = "CONTEXT_REFINEMENT" THEN "evolve_strategy"
    ELSE "run_evolution"

\* Darwin1Algorithm.run_evolution raises when the population is empty
\* (evaluated[0] on an empty list) or when the caller's objective raises
RunEvolutionRaises(payload) ==
    LET population == Get(payload, "population", << [x |-> 0] >>)
        objective  == Get(payload, "objective_function", "constant")
    IN  \/ Len(population) = 0
        \/ objective = "raises"

\* DarwinLLM._analyze_patterns raises when a parameter of the first outcome
\* has an unhashable value in some outcome (set(values))
AnalyzeRaises(outcomes) ==
    /\ Len(outcomes) > 0
    /\ \E n \in 1..Len(outcomes) : outcomes[n].params = "unhashable"

\* DarwinLLM.evolve_strategy: returns early below the sample minimum,
\* otherwise analyses both outcome lists (the collaborator call, the parse
\* and the patch do not raise)
EvolveStrategyRaises(payload) ==
    LET successes == Get(payload, "successes", <<>>)
        failures  == Get(payload, "failures", <<>>)
    IN  /\ Len(successes) + Len(failures) >= min_samples_for_evolution
        /\ (AnalyzeRaises(successes) \/ AnalyzeRaises(failures))

\* the Tier-1 / Tier-2 step of one loop iteration raises
ProcessRaises(mutation) ==
    IF Route(mutation) = "evolve_strategy"
    THEN EvolveStrategyRaises(mutation.payload)
    ELSE RunEvolutionRaises(mutation.payload)

\* The try block of _evolution_processor for a dequeued mutation:
\*   apply   - darwin3.apply_mutation is reached
\*   active  - the mutation is appended to active_mutations
\*   requeue - the mutation is put back on the queue
\*   alive   - the loop goes on to its next "while self.running" test
TryBlockRequeue(mutation) ==
    IF ProcessRaises(mutation)
    THEN [apply |-> FALSE, active |-> FALSE, requeue |-> TRUE, alive |-> TRUE]
    ELSE [apply |-> TRUE, active |-> TRUE, requeue |-> FALSE, alive |-> TRUE]

TryBlockSkipTier3(mutation) ==
    IF ProcessRaises(mutation)
    THEN [apply |-> FALSE, active |-> FALSE, requeue |-> FALSE, alive |-> TRUE]
    ELSE [apply |-> Route(mutation) # "evolve_strategy", active |-> TRUE,
          requeue |-> FALSE, alive |-> TRUE]

TryBlockPropagate(mutation) ==
    IF ProcessRaises(mutation)
    THEN [apply |-> FALSE, active |-> FALSE, requeue |-> FALSE, alive |-> FALSE]
    ELSE [apply |-> TRUE, active |-> TRUE, requeue |-> FALSE, alive |-> TRUE]

TryBlock(mutation) ==
    IF ProcessRaises(mutation)
    THEN [apply |-> FALSE, active |-> FALSE, requeue |-> FALSE, alive |-> TRUE]
    ELSE [apply |-> TRUE, active |-> TRUE, requeue |-> FALSE, alive |-> TRUE]

\* the "while self.running" test
WhileTest(flag) == IF flag THEN "waiting" ELSE "done"

LiveLoops == {l \in 1..Len(loops) : loops[l] # "done"}

\* DarwinOrchestrator.start
Start ==
    /\ running' = TRUE
    /\ loops' = Append(loops, "created")
    /\ UNCHANGED <<evolution_tasks, mutations, active_mutations, mutation_log,
                   signature_history, getCount, applyCount, dropped, pendingStop>>
    /\ UNCHANGED <<busVars, codecVars, tier3Vars, refineVars, callVars, tier1Vars, heapVars, tier2Vars>>

\* DarwinOrchestrator.stop
Stop ==
    /\ running' = FALSE
    /\ pendingStop' = pendingStop \cup {l \in 1..Len(loops) : loops[l] = "waiting"}
    /\ UNCHANGED <<loops, evolution_tasks, mutations, active_mutations, mutation_log,
                   signature_history, getCount, applyCount, dropped>>
    /\ UNCHANGED <<busVars, codecVars, tier3Vars, refineVars, callVars, tier1Vars, heapVars, tier2Vars>>

\* DarwinOrchestrator.submit_mutation; the new mutation's index stands for
\* its id and for its creation time
SubmitMutationLifo(evolution_type, payload, parent_mutations) ==
    LET n == Len(mutations) + 1
        mutation == [id                  |-> n,
                     evolution_type      |-> evolution_type,
                     component           |-> Component,
                     payload             |-> payload,
                     parent_mutations    |-> parent_mutations,
                     timestamp           |-> n,
                     darwin_signature    |-> NoSignature,
                     constitution_review |-> NoReview,
                     applied             |-> FALSE]
    IN  /\ mutations' = Append(mutations, mutation)
        /\ evolution_tasks' = <<n>> \o evolution_tasks
        /\ getCount' = Append(getCount, 0)
        /\ applyCount' = Append(applyCount, 0)
        /\ UNCHANGED <<running, loops, active_mutations, mutation_log,
                       signature_history, dropped, pendingStop>>
        /\ UNCHANGED <<busVars, codecVars, tier3Vars, refineVars, callVars, tier1Vars, heapVars, tier2Vars>>

SubmitMutation(evolution_type, payload, parent_mutations) ==
    LET n == Len(mutations) + 1
        mutation == [id                  |-> n,
                     evolution_type      |-> evolution_type,
                     component           |-> Component,
                     payload             |-> payload,
                     parent_mutations    |-> parent_mutations,
                     timestamp           |-> n,
                     darwin_signature    |-> NoSignature,
                     constitution_review |-> NoReview,
                     applied             |-> FALSE]
    IN  /\ mutations' = Append(mutations, mutation)
        /\ evolution_tasks' = Append(evolution_tasks, n)
        /\ getCount' = Append(getCount, 0)
        /\ applyCount' = Append(applyCount, 0)
        /\ UNCHANGED <<running, loops, active_mutations, mutation_log,
                       signature_history, dropped, pendingStop>>
        /\ UNCHANGED <<busVars, codecVars, tier3Vars, refineVars, callVars, tier1Vars, heapVars, tier2Vars>>

\* first run of a task created by start(): the first "while self.running"
LoopBegin(l) ==
    /\ loops[l] = "created"
    /\ loops' = [loops EXCEPT ![l] = WhileTest(running)]
    /\ pendingStop' = pendingStop \ {l}
    /\ UNCHANGED <<running, evolution_tasks, mutations, active_mutations, mutation_log,
                   signature_history, getCount, applyCount, dropped>>
    /\ UNCHANGED <<busVars, codecVars, tier3Vars, refineVars, callVars, tier1Vars, heapVars, tier2Vars>>

\* wait_for(queue.get(), 1.0) times out: "continue", then the while test
LoopTimeoutBreaks(l) ==
    /\ loops[l] = "waiting"
    /\ loops' = [loops EXCEPT ![l] = "done"]
    /\ pendingStop' = pendingStop \ {l}
    /\ UNCHANGED <<running, evolution_tasks, mutations, active_mutations, mutation_log,
                   signature_history, getCount, applyCount, dropped>>
    /\ UNCHANGED <<busVars, codecVars, tier3Vars, refineVars, callVars, tier1Vars, heapVars, tier2Vars>>

LoopTimeout(l) ==
    /\ loops[l] = "waiting"
    /\ loops' = [loops EXCEPT ![l] = WhileTest(running)]
    /\ pendingStop' = pendingStop \ {l}
    /\ UNCHANGED <<running, evolution_tasks, mutations, active_mutations, mutation_log,
                   signature_history, getCount, applyCount, dropped>>
    /\ UNCHANGED <<busVars, codecVars, tier3Vars, refineVars, callVars, tier1Vars, heapVars, tier2Vars>>

\* wait_for(queue.get(), 1.0) returns a mutation: one whole iteration, up to
\* the next while test (nothing in the iteration suspends)
LoopGet(l) ==
    /\ loops[l] = "waiting"
    /\ evolution_tasks # <<>>
    /\ LET m   == Head(evolution_tasks)
           t   == TryBlock(mutations[m])
           res == apply_mutation(Component, mutations[m])
       IN  /\ getCount' = [getCount EXCEPT ![m] = @ + 1]
           /\ evolution_tasks' = IF t.requeue THEN Append(Tail(evolution_tasks), m)
                                              ELSE Tail(evolution_tasks)
           /\ dropped' = IF t.active THEN dropped ELSE dropped \cup {m}
           /\ applyCount' = IF t.apply THEN [applyCount EXCEPT ![m] = @ + 1]
                                       ELSE applyCount
           /\ mutations' = IF t.apply THEN [mutations EXCEPT ![m] = res.mutation]
                                      ELSE mutations
           /\ mutation_log' = IF t.apply /\ res.status = "applied"
                              THEN Append(mutation_log, m) ELSE mutation_log
           /\ signature_history' =
                IF t.apply /\ res.status = "applied"
                THEN Append(signature_history,
                            [signature |-> res.mutation.darwin_signature,
                             component |-> Component,
                             status    |-> "applied"])
                ELSE signature_history
           /\ active_mutations' = IF t.active THEN Append(active_mutations, m)
                                              ELSE active_mutations
           /\ loops' = [loops EXCEPT ![l] = IF t.alive THEN WhileTest(running)
                                                       ELSE "done"]
    /\ pendingStop' = pendingStop \ {l}
    /\ UNCHANGED running
    /\ UNCHANGED <<busVars, codecVars, tier3Vars, refineVars, callVars, tier1Vars, heapVars, tier2Vars>>

\* ---- the submissions the orchestrator is exercised with ----
Candidate == [threshold |-> 7, weight |-> 5]

Outcomes(params) == [n \in 1..min_samples_for_evolution |->
                       [tokens_used |-> 100, params |-> params]]

PayloadGood ==
    [permeable_ai |-> TRUE, fastest_protocol |-> TRUE, dna_carried |-> TRUE,
     refine_en_route |-> TRUE, population |-> <<Candidate, Candidate>>]

PayloadBare == [task_type |-> "extraction"]

PayloadEmptyPopulation ==
    [permeable_ai |-> TRUE, fastest_protocol |-> TRUE, dna_carried |-> TRUE,
     refine_en_route |-> TRUE, population |-> <<>>]

PayloadForbidden ==
    [permeable_ai |-> TRUE, fastest_protocol |-> TRUE, dna_carried |-> TRUE,
     refine_en_route |-> TRUE, vendor_lockin |-> TRUE]

PayloadBadSamples ==
    [permeable_ai |-> TRUE, fastest_protocol |-> TRUE, dna_carried |-> TRUE,
     refine_en_route |-> TRUE, successes |-> Outcomes("unhashable")]

\* <<evolution type, payload>> of the submissions
OrchSubmissions ==
    {<<"DNA_OPTIMIZATION", PayloadGood>>,
     <<"DNA_OPTIMIZATION", PayloadEmptyPopulation>>,
     <<"DNA_OPTIMIZATION", PayloadBare>>,
     <<"CONTEXT_REFINEMENT", PayloadGood>>,
     <<"CONTEXT_REFINEMENT", PayloadBadSamples>>,
     <<"CONTEXT_REFINEMENT", PayloadForbidden>>,
     <<"STRATEGY", PayloadGood>>,
     <<"STRATEGY", PayloadEmptyPopulation>>}

\* parent_mutations of a submission: none, or the latest mutation's id
ParentChoices == IF Len(mutations) > 0 THEN {<<>>, <<Len(mutations)>>} ELSE {<<>>}

MaxStart  == 2
MaxSubmit == 2

InitOrch ==
    /\ BusInit /\ Tier2Idle /\ CallIdle /\ Tier1Idle /\ HeapIdle
    /\ CodecIdle /\ OrchInit /\ Tier3Idle /\ RefineIdle

DoStart == Len(loops) < MaxStart /\ Start

DoStop == Stop

DoSubmit ==
    /\ Len(mutations) < MaxSubmit
    /\ \E sub \in OrchSubmissions, pm \in ParentChoices :
          SubmitMutation(sub[1], sub[2], pm)

DoLoopBegin == \E l \in 1..Len(loops) : LoopBegin(l)

DoLoopTimeout == \E l \in 1..Len(loops) : LoopTimeout(l)

DoLoopGet == \E l \in 1..Len(loops) : LoopGet(l)

NextOrch == DoStart \/ DoStop \/ DoSubmit \/ DoLoopBegin \/ DoLoopTimeout \/ DoLoopGet

SpecOrch == InitOrch /\ [][NextOrch]_vars

(***************************************************************************)
(* Claims about the DarwinOrchestrator                                     *)
(***************************************************************************)
Submitted == 1..Len(mutations)

InQueue(m) == \E n \in 1..Len(evolution_tasks) : evolution_tasks[n] = m

\* C6 (as claimed): whatever start() and stop() calls were made, at most one
\* processing loop of the instance is live.
C6_AtMostOneLiveLoop == Cardinality(LiveLoops) <= 1

\* C7: every submitted mutation is dequeued at most once and handed to
\* Tier 3's apply at most once, and a mutation whose processing failed is
\* not on the queue again.
C7_AtMostOnce ==
    \A m \in Submitted :
        /\ getCount[m] <= 1
        /\ applyCount[m] <= 1
        /\ applyCount[m] <= getCount[m]
        /\ (getCount[m] >= 1 => ~ InQueue(m))
        /\ (m \in dropped => ~ InQueue(m))

\* two loops are live, one mutation failed and was dropped, another one
\* went through Tier 3
C7_Witness ==
    /\ Cardinality(LiveLoops) = 2
    /\ \E m \in Submitted : m \in dropped /\ getCount[m] = 1
    /\ \E m \in Submitted : applyCount[m] = 1

\* C8 (as claimed): every mutation the loop has dequeued has been passed to
\* Tier 3's apply by the end of that iteration.
C8_DequeuedAlwaysApplied ==
    \A m \in Submitted : getCount[m] >= 1 => applyCount[m] >= 1

\* C8 (amended): a dequeued mutation has been passed to Tier 3's apply (and
\* carries its review) by the end of the iteration, whatever its evolution
\* type, exactly when its Tier-1 / Tier-2 step returned; when that step
\* raised, Tier 3 is not reached for it.
C8_DequeuedAppliedUnlessRaised ==
    \A m \in Submitted :
        getCount[m] >= 1 =>
            IF ProcessRaises(mutations[m])
            THEN applyCount[m] = 0 /\ mutations[m].constitution_review = NoReview
            ELSE applyCount[m] = 1 /\ mutations[m].constitution_review # NoReview

\* a context-refinement mutation (Tier 2) and a strategy mutation (Tier 1,
\* unmatched type) were both dequeued and reviewed by Tier 3
C8_Witness ==
    /\ \E m \in Submitted : /\ mutations[m].evolution_type = "CONTEXT_REFINEMENT"
                            /\ applyCount[m] = 1
                            /\ ~ mutations[m].constitution_review.approved
    /\ \E m \in Submitted : /\ mutations[m].evolution_type = "STRATEGY"
                            /\ applyCount[m] = 1
                            /\ mutations[m].applied

\* C9: a mutation whose processing raised is dropped (not on the queue, not
\* in the active list, not handed to Tier 3); the step that drops it leaves
\* the rest of the queue in place and, the run flag being set, leaves the
\* loop waiting for the next item.
C9_FailedMutationDropped ==
    /\ [](\A m \in dropped :
             /\ ~ InQueue(m)
             /\ m \notin SeqToSet(active_mutations)
             /\ applyCount[m] = 0)
    /\ [][dropped' # dropped =>
             /\ evolution_tasks' = Tail(evolution_tasks)
             /\ (running => loops' = loops)]_vars

\* the only loop dropped a failing mutation and then processed the one
\* queued after it
C9_Witness ==
    /\ Len(loops) = 1
    /\ 1 \in dropped
    /\ active_mutations = <<2>>
    /\ loops[1] = "waiting"

\* C10 (as claimed): a loop that was waiting on the queue when stop() was
\* called terminates at its next poll (the end of that wait or of the item
\* it received).
C10_StopObservedAtNextPoll ==
    [][\A l \in pendingStop : l \notin pendingStop' => loops'[l] = "done"]_vars

(***************************************************************************)
(* SpecTier3: a Darwin3Enforcer used directly, on mutations built by the   *)
(* DarwinMutation constructor or by the create_darwin_mutation factory     *)
(***************************************************************************)
\* DarwinMutation(...) with the dataclass defaults for the other fields
DarwinMutation(id, evolution_type, component, payload, parent_mutations, timestamp) ==
    [id                  |-> id,
     evolution_type      |-> evolution_type,
     component           |-> component,
     payload             |-> payload,
     parent_mutations    |-> parent_mutations,
     timestamp           |-> timestamp,
     darwin_signature    |-> NoSignature,
     constitution_review |-> NoReview,
     applied             |-> FALSE]

\* DarwinMutation.create_signature(component): same text as
\* Darwin3Enforcer._create_signature, stored on the mutation
mutation_create_signature(mutation, component) ==
    [mutation EXCEPT !.darwin_signature = create_signature(component, mutation)]

\* create_darwin_mutation
create_darwin_mutation(id, component, evolution_type, payload, parent_mutations, timestamp) ==
    mutation_create_signature(
        DarwinMutation(id, evolution_type, component, payload, parent_mutations,
                       timestamp),
        component)

PayloadRestrictive ==
    [permeable_ai |-> TRUE, fastest_protocol |-> TRUE, dna_carried |-> TRUE,
     refine_en_route |-> TRUE, restrictive |-> TRUE]

\* payloads of the mutations handed to the enforcer
Tier3Payloads == {PayloadGood, PayloadBare, PayloadForbidden, PayloadRestrictive}

\* before the first apply_mutation call
NoApply == [call |-> 0, target |-> 0, returned |-> [status |-> "none"]]

MaxCreate == 2
MaxApply  == 3

InitTier3 ==
    /\ BusInit /\ Tier2Idle /\ CallIdle /\ Tier1Idle /\ HeapIdle /\ CodecIdle /\ OrchInit /\ RefineIdle
    /\ applyResult = NoApply
    /\ candidate = "none"
    /\ reviewed = "none"
    /\ sigIn = "none"
    /\ sigOut = "none"

Tier3Frame ==
    /\ UNCHANGED <<running, loops, evolution_tasks, active_mutations, getCount,
                   applyCount, dropped, pendingStop>>
    /\ UNCHANGED <<candidate, reviewed, sigIn, sigOut>>
    /\ UNCHANGED <<busVars, codecVars, refineVars, callVars, tier1Vars, heapVars, tier2Vars>>

\* mutation = DarwinMutation(evolution_type=..., component=..., payload=...,
\* parent_mutations=...)
DoConstruct ==
    /\ Len(mutations) < MaxCreate
    /\ \E payload \in Tier3Payloads, pm \in ParentChoices :
          LET n == Len(mutations) + 1
          IN  mutations' = Append(mutations,
                  DarwinMutation(n, "DNA_OPTIMIZATION", Component, payload, pm, n))
    /\ UNCHANGED <<mutation_log, signature_history, applyResult>>
    /\ Tier3Frame

\* mutation = create_darwin_mutation(component, evolution_type, payload,
\* parent_mutations)
DoFactory ==
    /\ Len(mutations) < MaxCreate
    /\ \E payload \in Tier3Payloads, pm \in ParentChoices :
          LET n == Len(mutations) + 1
          IN  mutations' = Append(mutations,
                  create_darwin_mutation(n, Component, "DNA_OPTIMIZATION", payload,
                                         pm, n))
    /\ UNCHANGED <<mutation_log, signature_history, applyResult>>
    /\ Tier3Frame

\* enforcer.apply_mutation(mutations[m])
ApplyMutation(m) ==
    LET res == apply_mutation(Component, mutations[m])
    IN  /\ mutations' = [mutations EXCEPT ![m] = res.mutation]
        /\ mutation_log' = IF res.status = "applied"
                           THEN Append(mutation_log, m) ELSE mutation_log
        /\ signature_history' =
             IF res.status = "applied"
             THEN Append(signature_history,
                         [signature |-> res.mutation.darwin_signature,
                          component |-> Component,
                          status    |-> "applied"])
             ELSE signature_history
        /\ applyResult' = [call     |-> applyResult.call + 1,
                           target   |-> m,
                           returned |-> res.returned]
        /\ Tier3Frame

DoApply ==
    /\ applyResult.call < MaxApply
    /\ \E m \in 1..Len(mutations) : ApplyMutation(m)

NextTier3 == DoConstruct \/ DoFactory \/ DoApply

SpecTier3 == InitTier3 /\ [][NextTier3]_vars

(***************************************************************************)
(* Claims about the Darwin3Enforcer                                        *)
(***************************************************************************)
\* s is an initial segment of t
IsPrefix(s, t) == Len(s) <= Len(t) /\ SubSeq(t, 1, Len(s)) = s

C12_LogApprovedAppendOnly ==
    /\ [](\A n \in 1..Len(mutation_log) :
             LET mutation == mutations[mutation_log[n]]
             IN  /\ mutation.applied
                 /\ mutation.darwin_signature # NoSignature
                 /\ mutation.constitution_review # NoReview
                 /\ mutation.constitution_review.approved
                 /\ mutation.constitution_review.issues = <<>>)
    /\ [](/\ Len(mutation_log) = Len(signature_history)
          /\ \A n \in 1..Len(mutation_log) :
                signature_history[n].signature =
                    mutations[mutation_log[n]].darwin_signature)
    /\ [][/\ IsPrefix(mutation_log, mutation_log')
          /\ IsPrefix(signature_history, signature_history')
          /\ Len(mutation_log') =
                IF /\ applyResult'.call # applyResult.call
                   /\ applyResult'.returned.status = "applied"
                THEN Len(mutation_log) + 1
                ELSE Len(mutation_log)]_vars

\* three approved applies on two mutations, the first one applied twice:
\* the log holds it at positions 1 and 3 and the ledger has three entries
C12_Witness ==
    /\ mutation_log = <<1, 2, 1>>
    /\ Len(signature_history) = 3
    /\ mutations[1].applied /\ mutations[2].applied

\* C13 (as claimed): for every mutation record, whether built by the
\* factory, by the constructor or by the Orchestrator on submission, the
\* signature is empty until the mutation has been applied: a non-empty
\* signature implies applied = true.
C13_SignedImpliesApplied ==
    \A m \in 1..Len(mutations) :
        mutations[m].darwin_signature # NoSignature => mutations[m].applied

(***************************************************************************)
(* SpecSig: the signature computed for two mutations, each under its own   *)
(* lineage, component and environment                                      *)
(***************************************************************************)
\* parent id lists (ids are texts)
SigParents == {<<>>, << <<"a", "1">> >>}

\* str(timestamp) of creation times 1.5 and 1.55
SigTimes == {<<"1", ".", "5">>, <<"1", ".", "5", "5">>}

SigComponents == {"dna", "context"}

\* what DARWIN_SECRET_<COMPONENT> holds: unset, "x" or "5x"
SigSecrets == {Unset, SetTo(<<"x">>), SetTo(<<"5", "x">>)}

SigInputs ==
    {[parent_mutations |-> pm, timestamp |-> ts, component |-> c,
      environ |-> [NoEnviron EXCEPT ![Upper(c)] = sec]] :
        pm \in SigParents, ts \in SigTimes, c \in SigComponents,
        sec \in SigSecrets}

\* lineage = parent_mutations + [timestamp], each element through str()
Lineage(in) == in.parent_mutations \o <<in.timestamp>>

SecretOf(in) == Getenv(in.environ, Upper(in.component), DefaultSecret)

NoSigOut == <<NoSignature, NoSignature>>

InitSig ==
    /\ BusInit /\ Tier2Idle /\ CallIdle /\ Tier1Idle /\ HeapIdle /\ CodecIdle /\ OrchInit /\ RefineIdle
    /\ applyResult = "none"
    /\ candidate = "none"
    /\ reviewed = "none"
    /\ sigIn \in SigInputs \X SigInputs
    /\ sigOut = NoSigOut

\* _create_signature for both inputs
Sign ==
    /\ sigOut = NoSigOut
    /\ sigOut' = <<lineage_signature(Lineage(sigIn[1]), sigIn[1].component,
                                     sigIn[1].environ),
                   lineage_signature(Lineage(sigIn[2]), sigIn[2].component,
                                     sigIn[2].environ)>>
    /\ UNCHANGED <<applyResult, candidate, reviewed, sigIn>>
    /\ UNCHANGED <<busVars, codecVars, orchVars, refineVars, callVars, tier1Vars, heapVars, tier2Vars>>

NextSig == Sign

SpecSig == InitSig /\ [][NextSig]_vars

\* C14 (as claimed): the signature depends on lineage, component and secret
\* only: equal lineage, component and secret give equal signatures, and two
\* inputs that differ in the secret or in the lineage get different
\* signatures (the digest being collision-free).
C14_SignatureInjective ==
    sigOut # NoSigOut =>
        /\ (/\ Lineage(sigIn[1]) = Lineage(sigIn[2])
            /\ sigIn[1].component = sigIn[2].component
            /\ SecretOf(sigIn[1]) = SecretOf(sigIn[2]))
           => sigOut[1] = sigOut[2]
        /\ (\/ Lineage(sigIn[1]) # Lineage(sigIn[2])
            \/ SecretOf(sigIn[1]) # SecretOf(sigIn[2]))
           => sigOut[1] # sigOut[2]

(***************************************************************************)
(* SpecReview: review_mutation on one candidate dict                       *)
(***************************************************************************)
\* keys whose value is always True in the candidates below
FlagKeys ==
    {"fastest_protocol", "dna_carried", "refine_en_route",
     "centralized_dead_man_switch", "black_box_ai", "single_point_of_failure",
     "efficiency", "optimization"}

\* keys that occur with value True or with value False
ValuedKeys == {"permeable_ai", "vendor_lockin", "restrictive"}

\* candidate dicts: any set of flag keys, and each valued key absent, True
\* or False
ReviewCandidates ==
    {[k \in flags \cup valued |-> IF k \in flags THEN TRUE ELSE k \in truthy] :
        flags \in SUBSET FlagKeys,
        valued \in SUBSET ValuedKeys,
        truthy \in SUBSET ValuedKeys}

InitReview ==
    /\ BusInit /\ Tier2Idle /\ CallIdle /\ Tier1Idle /\ HeapIdle /\ CodecIdle /\ OrchInit /\ RefineIdle
    /\ applyResult = "none"
    /\ candidate \in ReviewCandidates
    /\ reviewed = NoReview
    /\ sigIn = "none"
    /\ sigOut = "none"

\* review = enforcer.review_mutation(candidate)
Review ==
    /\ reviewed = NoReview
    /\ reviewed' = review_mutation(candidate)
    /\ UNCHANGED <<applyResult, candidate, sigIn, sigOut>>
    /\ UNCHANGED <<busVars, codecVars, orchVars, refineVars, callVars, tier1Vars, heapVars, tier2Vars>>

NextReview == Review

SpecReview == InitReview /\ [][NextReview]_vars

\* number of entries of issues equal to issue
CountOf(issues, issue) ==
    Cardinality({n \in 1..Len(issues) : issues[n] = issue})

\* number of entries of issues of the given kind
CountKind(issues, kind) ==
    Cardinality({n \in 1..Len(issues) : issues[n][1] = kind})

\* C15: review(candidate) holds exactly one "missing required" issue per
\* required marker absent from the candidate (none for a present one), one
\* "violates constraint" issue per forbidden marker present in it (none for
\* an absent one), besides these at most the one spirit issue; approved is
\* true iff the issue list is empty; a candidate containing the vendor
\* lock-in marker, whatever its value, is not approved.
C15_OneIssuePerMarker ==
    reviewed # NoReview =>
        /\ \A n \in 1..Len(CONSTITUTION_MUST_HAVES) :
              LET r == CONSTITUTION_MUST_HAVES[n]
              IN  CountOf(reviewed.issues, <<"Missing required", r>>) =
                      IF r \in DOMAIN candidate THEN 0 ELSE 1
        /\ \A n \in 1..Len(CONSTITUTION_CANNOT_HAVES) :
              LET f == CONSTITUTION_CANNOT_HAVES[n]
              IN  CountOf(reviewed.issues, <<"Violates constraint", f>>) =
                      IF f \in DOMAIN candidate THEN 1 ELSE 0
        /\ CountKind(reviewed.issues, "Missing required") =
              Cardinality(SeqToSet(CONSTITUTION_MUST_HAVES) \ DOMAIN candidate)
        /\ CountKind(reviewed.issues, "Violates constraint") =
              Cardinality(SeqToSet(CONSTITUTION_CANNOT_HAVES) \cap DOMAIN candidate)
        /\ CountKind(reviewed.issues, "Violates spirit") <= 1
        /\ Len(reviewed.issues) = CountKind(reviewed.issues, "Missing required")
                                  + CountKind(reviewed.issues, "Violates constraint")
                                  + CountKind(reviewed.issues, "Violates spirit")
        /\ reviewed.approved <=> reviewed.issues = <<>>
        /\ "vendor_lockin" \in DOMAIN candidate => ~ reviewed.approved

\* a candidate lacking two required markers and carrying the vendor lock-in
\* marker with value False was reviewed: three issues, in the code's order
C15_Witness ==
    /\ reviewed # NoReview
    /\ candidate = [fastest_protocol |-> TRUE, refine_en_route |-> TRUE,
                    efficiency |-> TRUE, vendor_lockin |-> FALSE]
    /\ reviewed.issues = << <<"Missing required", "permeable_ai">>,
                            <<"Missing required", "dna_carried">>,
                            <<"Violates constraint", "vendor_lockin">> >>
    /\ ~ reviewed.approved

\* 1.0 - 0.1 * missing - 0.2 * forbidden - 0.15 * spirit, floored at 0, in
\* hundredths
ScoreFormula(issues) ==
    LET score == 100 - 10 * CountKind(issues, "Missing required")
                     - 20 * CountKind(issues, "Violates constraint")
                     - 15 * CountKind(issues, "Violates spirit")
    IN  IF score < 0 THEN 0 ELSE score

\* C16 (as claimed): the approval score of every review result, approved or
\* rejected, is 1.0 - 0.1 * (missing-required issues) - 0.2 * (forbidden-
\* marker issues) - 0.15 * (spirit issues), floored at 0.
C16_ScoreFollowsFormula ==
    reviewed # NoReview => reviewed.approval_score = ScoreFormula(reviewed.issues)

(***************************************************************************)
(* More claims about the DarwinOrchestrator                                *)
(***************************************************************************)
\* C17 (as claimed): every mutation the Orchestrator's loop has processed
\* is in the Tier-3 mutation log.
C17_ProcessedAlwaysArchived ==
    \A m \in Submitted : getCount[m] >= 1 => m \in SeqToSet(mutation_log)

\* C17 (amended): a mutation the loop has processed is in the Tier-3
\* mutation log, from the end of that iteration on, exactly when its
\* Tier-1 / Tier-2 step returned and Tier 3 approved its payload; one that
\* Tier 3 rejected or whose processing raised is not in the log; a mutation
\* not yet dequeued is not in the log; and the log only grows, so an
\* archived mutation stays archived.
C17_ApprovedProcessedArchived ==
    /\ [](\A m \in Submitted :
             m \in SeqToSet(mutation_log) <=>
                 /\ getCount[m] >= 1
                 /\ ~ ProcessRaises(mutations[m])
                 /\ review_mutation(mutations[m].payload).approved)
    /\ [][IsPrefix(mutation_log, mutation_log')]_vars

\* the loop has processed two mutations: the first was approved and is
\* archived, the second was rejected by Tier 3 and is only in the active
\* list
C17_Witness ==
    /\ getCount = <<1, 1>>
    /\ mutation_log = <<1>>
    /\ active_mutations = <<1, 2>>
    /\ mutations[1].applied
    /\ ~ mutations[2].applied
    /\ ~ mutations[2].constitution_review.approved

(***************************************************************************)
(* ContextRefiner.refine_en_route                                          *)
(***************************************************************************)
\* the methods class EnRouteContext defines (besides those the dataclass
\* decorator generates): it has no add_hop and no record_refinement
EnRouteContextMethods == {"__post_init__"}

\* the attribute lookup message.context.<name>: the bound method, or
\* AttributeError when EnRouteContext has no attribute of that name
ContextGetAttr(name) ==
    IF name \in EnRouteContextMethods THEN "bound method" ELSE "AttributeError"

\* ContextRefiner.refine_en_route(message, processor_id): the envelope and
\* the refiner's stats after the call, and how the call ended.  Line 120
\* counts the message; line 123, message.context.add_hop(processor_id), is
\* the first statement that touches the envelope, and the call ends in the
\* AttributeError its attribute lookup raises.
refine_en_routeFreshContext(stats, message, processor_id) ==
    [message |-> [message EXCEPT !.context.hops = PyInt(1),
                                 !.context.refinements = PyList(<<>>)],
     stats   |-> [stats EXCEPT !.total_messages = @ + 1],
     outcome |-> "returned"]

refine_en_routeSetsFocus(stats, message, processor_id) ==
    [message |-> [message EXCEPT !.focus.mode = "RELEVANCE",
                                 !.context.hops = PyInt(@.i + 1)],
     stats   |-> [stats EXCEPT !.total_messages = @ + 1],
     outcome |-> "returned"]

refine_en_route(stats, message, processor_id) ==
    [message |-> message,
     stats   |-> [stats EXCEPT !.total_messages = @ + 1],
     outcome |-> ContextGetAttr("add_hop")]

ProcessorIds == {"demo_processor", "scraper-vm"}

MaxRefine == 2

\* payloads of scrape results: link lists with repeated items, and a page
\* text
PayloadDupLinks ==
    PyDict(<< <<PyStr("links"), PyList(<<PyStr("a"), PyStr("b"), PyStr("a"), PyStr("c")>>)>>,
              <<PyStr("emails"), PyList(<<PyStr("a"), PyStr("a")>>)>>,
              <<PyStr("urls"), PyList(<<PyStr("a")>>)>> >>)
PayloadHtml ==
    PyDict(<< <<PyStr("html"), PyStr("aaa keyword bbb")>> >>)

RefineEnvelopes ==
    {[e EXCEPT !.payload = pl] :
        e \in {c \in CodecEnvelopes : c.payload = PayloadEmpty},
        pl \in {PayloadDupLinks, PayloadHtml}}

\* key in payload, and payload[key], for a dict held as its item pairs
DictHas(dict, key) == \E i \in 1..Len(dict.pairs) : dict.pairs[i][1] = key
DictGet(dict, key) ==
    dict.pairs[CHOOSE i \in 1..Len(dict.pairs) : dict.pairs[i][1] = key][2]

\* ContextRefiner.__init__ and an envelope as NeuralMessage builds or
\* decodes it
InitRefine ==
    /\ BusInit /\ Tier2Idle /\ CallIdle /\ Tier1Idle /\ HeapIdle /\ CodecIdle /\ OrchInit /\ Tier3Idle
    /\ envelope \in CodecEnvelopes \cup RefineEnvelopes
    /\ refinement_stats = [total_messages |-> 0, avg_compression |-> 0,
                           avg_relevance |-> 0, filtered_count |-> 0]
    /\ refineOutcome = "none"

\* await refiner.refine_en_route(envelope, processor_id)
DoRefine ==
    /\ refinement_stats.total_messages < MaxRefine
    /\ \E processor_id \in ProcessorIds :
          LET res == refine_en_route(refinement_stats, envelope, processor_id)
          IN  /\ envelope' = res.message
              /\ refinement_stats' = res.stats
              /\ refineOutcome' = res.outcome
    /\ UNCHANGED <<busVars, codecVars, orchVars, tier3Vars, callVars, tier1Vars, heapVars, tier2Vars>>

NextRefine == DoRefine

SpecRefine == InitRefine /\ [][NextRefine]_vars

(***************************************************************************)
(* Claims about the ContextRefiner                                         *)
(***************************************************************************)
\* a refine_en_route call was made in this step
RefineCalled == refinement_stats'.total_messages # refinement_stats.total_messages

\* C18 (as claimed): each refine_en_route call completes and increases the
\* envelope's hop counter by exactly one.
C18_RefineAddsOneHop ==
    [][RefineCalled =>
          /\ refineOutcome' = "returned"
          /\ envelope'.context.hops = PyInt(envelope.context.hops.i + 1)]_vars

None == 0

\* the expression [] (or {}) in a __post_init__: a new, empty object
FreshListShared(h, kind) ==
    IF \E a \in 1..Len(h) : h[a].k = kind
    THEN [heap |-> h, addr |-> CHOOSE a \in 1..Len(h) : h[a].k = kind]
    ELSE [heap |-> Append(h, [k |-> kind, items |-> <<>>]), addr |-> Len(h) + 1]

FreshList(h, kind) ==
    [heap |-> Append(h, [k |-> kind, items |-> <<>>]), addr |-> Len(h) + 1]

\* "if self.x is None: self.x = []"
OrFresh(h, given, kind) ==
    IF given = None THEN FreshList(h, kind) ELSE [heap |-> h, addr |-> given]

\* MessageFocus(target_entities=te, keywords=kw, negative_keywords=nk) and
\* its __post_init__
NewMessageFocus(h, te, kw, nk) ==
    LET a1 == OrFresh(h, te, "list")
        a2 == OrFresh(a1.heap, kw, "list")
        a3 == OrFresh(a2.heap, nk, "list")
    IN  [heap |-> Append(a3.heap, [k |-> "focus",
                                   target_entities   |-> a1.addr,
                                   keywords          |-> a2.addr,
                                   negative_keywords |-> a3.addr]),
         addr |-> Len(a3.heap) + 1]

\* EnRouteContext(filtered_elements=fe, hops=hops, refinements=r) and its
\* __post_init__
NewEnRouteContext(h, fe, hops, r) ==
    LET a1 == OrFresh(h, fe, "list")
        a2 == OrFresh(a1.heap, r, "list")
    IN  [heap |-> Append(a2.heap, [k |-> "context",
                                   filtered_elements |-> a1.addr,
                                   hops              |-> hops,
                                   refinements       |-> a2.addr]),
         addr |-> Len(a2.heap) + 1]

\* NeuralMessage(focus=focus, payload=payload, context=context) and its
\* __post_init__
NewNeuralMessage(h, focus, payload, context) ==
    LET f == IF focus = None THEN NewMessageFocus(h, None, None, None)
                             ELSE [heap |-> h, addr |-> focus]
        p == OrFresh(f.heap, payload, "dict")
        c == IF context = None THEN NewEnRouteContext(p.heap, None, 0, None)
                               ELSE [heap |-> p.heap, addr |-> context]
    IN  [heap    |-> c.heap,
         message |-> [focus |-> f.addr, payload |-> p.addr, context |-> c.addr]]

\* msgpack.unpackb builds a new object for every array / map on the wire
Unpacked(h, kind, items) ==
    [heap |-> Append(h, [k |-> kind, items |-> items]), addr |-> Len(h) + 1]

\* NeuralMessage.from_binary of an envelope whose collections all hold
\* items and whose hop counter is hops: cls(payload=raw['pl'], ...), then
\* msg.focus and msg.context are replaced by objects built from raw['f']
\* and raw['c'] (the focus and context that __post_init__ had built for
\* cls(...) are dropped and left out here)
from_binary_objects(h, items, hops) ==
    LET pl == Unpacked(h, "dict", items)
        te == Unpacked(pl.heap, "list", items)
        kw == Unpacked(te.heap, "list", items)
        nk == Unpacked(kw.heap, "list", items)
        fe == Unpacked(nk.heap, "list", items)
        r  == Unpacked(fe.heap, "list", items)
        f  == NewMessageFocus(r.heap, te.addr, kw.addr, nk.addr)
        c  == NewEnRouteContext(f.heap, fe.addr, hops, r.addr)
    IN  NewNeuralMessage(c.heap, f.addr, pl.addr, c.addr)

\* the collection objects an envelope reaches
Collections(h, msg) ==
    {msg.payload,
     h[msg.focus].target_entities, h[msg.focus].keywords,
     h[msg.focus].negative_keywords,
     h[msg.context].filtered_elements, h[msg.context].refinements}

\* every object an envelope reaches
Reach(h, msg) == Collections(h, msg) \cup {msg.focus, msg.context}

MaxObjects == 2
MaxItems   == 2

\* items appended and hops counted so far, over all the objects of the heap
RECURSIVE TotalItems(_)
TotalItems(h) ==
    IF h = <<>> THEN 0
    ELSE (CASE Head(h).k \in {"list", "dict"} ->
                   Len(SelectSeq(Head(h).items, LAMBDA x : x = "b"))
            [] Head(h).k = "context"        -> Head(h).hops
            [] OTHER                        -> 0)
         + TotalItems(Tail(h))

InitAlias ==
    /\ BusInit /\ Tier2Idle /\ CallIdle /\ Tier1Idle
    /\ CodecIdle /\ OrchInit /\ Tier3Idle /\ RefineIdle
    /\ heap = <<>>
    /\ objects = <<>>

AliasFrame ==
    UNCHANGED <<busVars, codecVars, orchVars, tier3Vars, refineVars, callVars,
                tier1Vars, tier2Vars>>

\* msg = NeuralMessage(topic=...), every collection defaulted
DoNewMessage ==
    /\ Len(objects) < MaxObjects
    /\ LET new == NewNeuralMessage(heap, None, None, None)
       IN  /\ heap' = new.heap
           /\ objects' = Append(objects, new.message)
    /\ AliasFrame

\* msg = NeuralMessage.from_binary(data)
DoFromBinary ==
    /\ Len(objects) < MaxObjects
    /\ \E items \in {<<>>, <<"a">>} :
          LET new == from_binary_objects(heap, items, 0)
          IN  /\ heap' = new.heap
              /\ objects' = Append(objects, new.message)
    /\ AliasFrame

\* a handler appends to one collection of one envelope, e.g.
\* msg.focus.keywords.append("b") or msg.payload["b"] = ...
DoAppendItem ==
    /\ TotalItems(heap) < MaxItems
    /\ \E e \in 1..Len(objects) : \E a \in Collections(heap, objects[e]) :
          heap' = [heap EXCEPT ![a].items = Append(@, "b")]
    /\ UNCHANGED objects
    /\ AliasFrame

\* a handler counts a hop on one envelope: msg.context.hops += 1
DoCountHop ==
    /\ TotalItems(heap) < MaxItems
    /\ \E e \in 1..Len(objects) :
          heap' = [heap EXCEPT ![objects[e].context].hops = @ + 1]
    /\ UNCHANGED objects
    /\ AliasFrame

NextAlias == DoNewMessage \/ DoFromBinary \/ DoAppendItem \/ DoCountHop

SpecAlias == InitAlias /\ [][NextAlias]_vars

\* the contents of every object envelope e reaches
ViewOf(h, objs, e) == [a \in Reach(h, objs[e]) |-> h[a]]

\* C21: no two envelopes share a context audit or a collection: every
\* collection field of every envelope built by NeuralMessage() or by
\* from_binary is an object of its own (never None, never the object of
\* another field or of another envelope), the collections of an envelope
\* built with defaults start empty, and a step that changes what one
\* envelope reaches leaves what every other envelope reaches unchanged.
C21_NoSharedCollections ==
    /\ [](\A e \in 1..Len(objects) :
            /\ \A a \in Reach(heap, objects[e]) : a # None /\ a \in 1..Len(heap)
            /\ Cardinality(Reach(heap, objects[e])) = 8
            /\ \A o \in 1..Len(objects) :
                  o # e => Reach(heap, objects[e]) \cap Reach(heap, objects[o]) = {})
    /\ [][DoNewMessage =>
            \A a \in Collections(heap', objects'[Len(objects')]) :
               heap'[a].items = <<>>]_vars
    /\ [][\A e \in 1..Len(objects) :
            ViewOf(heap', objects', e) # ViewOf(heap, objects, e) =>
               \A o \in 1..Len(objects) :
                  o # e => ViewOf(heap', objects', o) = ViewOf(heap, objects, o)]_vars

\* two envelopes built with defaults, the first one's audit trail appended to
C21_Witness ==
    /\ Len(objects) = 2
    /\ heap[heap[objects[1].context].refinements].items = <<"b">>
    /\ heap[heap[objects[2].context].refinements].items = <<>>
    /\ heap[heap[objects[1].focus].keywords].items = <<>>

(***************************************************************************)
(* Claims about the refiner's transforms                                   *)
(***************************************************************************)
\* the distinct items of a list, each once, in first-occurrence order
RECURSIVE FirstOccurrences(_, _)
FirstOccurrences(items, seen) ==
    IF items = <<>> THEN <<>>
    ELSE IF Head(items) \in seen
         THEN FirstOccurrences(Tail(items), seen)
         ELSE <<Head(items)>> \o FirstOccurrences(Tail(items), seen \cup {Head(items)})

DedupKeys == {PyStr("links"), PyStr("emails"), PyStr("urls")}

\* the list-valued payload fields named links, emails or urls
DedupFields(msg) ==
    {key \in DedupKeys :
        DictHas(msg.payload, key) /\ DictGet(msg.payload, key).k = "list"}

\* C22 (as claimed): after a refine_en_route call every list-valued payload
\* field named links, emails or urls holds the distinct items of the
\* original list, each once, in first-occurrence order, and the audit trail
\* has grown by one deduplication entry for each field that lost an item.
C22_RefineDeduplicates ==
    [][RefineCalled =>
          /\ \A key \in DedupFields(envelope) :
                /\ DictHas(envelope'.payload, key)
                /\ DictGet(envelope'.payload, key) =
                      PyList(FirstOccurrences(DictGet(envelope.payload, key).items, {}))
          /\ Len(envelope'.context.refinements.items) =
                Len(envelope.context.refinements.items)
                + Cardinality({key \in DedupFields(envelope) :
                     Len(FirstOccurrences(DictGet(envelope.payload, key).items, {}))
                        < Len(DictGet(envelope.payload, key).items)})]_vars

(***************************************************************************)
(* SpecTier1: Darwin1Algorithm.run_evolution, one loop iteration per step. *)
(* A solution is a dict, held as its (key, value) pairs in insertion       *)
(* order; floats are PyFloat in thousandths; random draws are choices.     *)
(***************************************************************************)
SolHas(s, key) == \E i \in 1..Len(s) : s[i][1] = key

\* s.get(key, default)
SolGet(s, key, default) ==
    IF SolHas(s, key) THEN s[CHOOSE i \in 1..Len(s) : s[i][1] = key][2]
    ELSE default

\* s[key] = value
SolSet(s, key, value) ==
    IF SolHas(s, key)
    THEN [i \in 1..Len(s) |-> IF s[i][1] = key THEN <<key, value>> ELSE s[i]]
    ELSE Append(s, <<key, value>>)

\* the number a value stands for in arithmetic, in thousandths
Milli(v) ==
    CASE v.k = "float" -> v.milli
      [] v.k = "int"   -> v.i * 1000
      [] v.k = "bool"  -> IF v.b THEN 1000 ELSE 0

Max2(a, b) == IF a >= b THEN a ELSE b
Min2(a, b) == IF a <= b THEN a ELSE b

\* Darwin1Algorithm._check_constitution, in thousandths
check_constitution(mutation) ==
    LET IsMissing(r) == ~SolHas(mutation, r)
        IsPresent(f) == SolHas(mutation, f)
        score == 1000 - 50 * Len(SelectSeq(CONSTITUTION_MUST_HAVES, IsMissing))
    IN  IF SelectSeq(CONSTITUTION_CANNOT_HAVES, IsPresent) # <<>> THEN 0
        ELSE Max2(0, score)

\* Darwin1Algorithm.evaluate_mutation, in ten-thousandths
evaluate_mutation(mutation) ==
    (1000 - Milli(SolGet(mutation, "latency_improvement", PyInt(0)))) * 3
    + Milli(SolGet(mutation, "relevance_improvement", PyInt(0))) * 4
    + Milli(SolGet(mutation, "efficiency_improvement", PyInt(0))) * 2
    + check_constitution(mutation)

\* Darwin1Algorithm._hash_solution: the digest of the key-sorted
\* serialization, which the order of the keys does not change; chars is
\* the number of hex digits kept
hash_solution(solution, chars) ==
    [k |-> "str", blake2b |-> {solution[i] : i \in 1..Len(solution)}, chars |-> chars]

\* time.time() and the draws of random.uniform(0.8, 1.2) and
\* random.randint(-5, 5) that the model follows
Tier1Now == 1000000
Factors  == {800, 1200}
Offsets  == {-5, 5}

\* isinstance(value, (int, float)): bool is an int in Python
IsNumeric(v) == v.k \in {"int", "float", "bool"}

\* the sets of keys that all the draws random.random() < mutation_rate of
\* one create_mutation call can select
MutatedKeySets(cfg, parent) ==
    LET numeric == {parent[i][1] : i \in {j \in 1..Len(parent) : IsNumeric(parent[j][2])}}
    IN  IF cfg.mutation_rate <= 0 THEN {{}}
        ELSE IF cfg.mutation_rate >= 1000 THEN {numeric}
        ELSE SUBSET numeric

\* Darwin1Algorithm.create_mutation(parent) when the keys in keys are
\* selected and the draws are factor and offset
create_mutation(parent, keys, factor, offset) ==
    LET Perturbed(v) ==
            CASE v.k = "float" -> PyFloat((v.milli * factor) \div 1000)
              [] v.k = "int"   -> PyInt(v.i + offset)
              [] v.k = "bool"  -> PyInt((IF v.b THEN 1 ELSE 0) + offset)
        mutation == [i \in 1..Len(parent) |->
                        IF parent[i][1] \in keys
                        THEN <<parent[i][1], Perturbed(parent[i][2])>>
                        ELSE parent[i]]
    IN  SolSet(SolSet(mutation, "mutation_timestamp", PyFloat(Tier1Now)),
               "parent_hash", hash_solution(parent, 16))

\* child[key] = parent[key] for each of the pairs, in order
RECURSIVE SetAll(_, _)
SetAll(child, pairs) ==
    IF pairs = <<>> THEN child
    ELSE SetAll(SolSet(child, Head(pairs)[1], Head(pairs)[2]), Tail(pairs))

\* Darwin1Algorithm._crossover
crossover(parent1, parent2) ==
    LET split == Len(parent1) \div 2
        half1 == SubSeq(parent1, 1, split)
        half2 == SubSeq(parent2, split + 1, Len(parent2))
        child == SetAll(SetAll(<<>>, half1), half2)
    IN  SolSet(SolSet(child, "crossover", PyBool(TRUE)),
               "parents", PyList(<<hash_solution(parent1, 8), hash_solution(parent2, 8)>>))

\* list.sort(key=lambda x: x[0], reverse=True): descending by score, items
\* of equal score in their original order
RECURSIVE SortDesc(_)
SortDesc(scored) ==
    IF scored = <<>> THEN <<>>
    ELSE LET rest == SortDesc(Tail(scored))
             x    == Head(scored)
             ahead == SelectSeq(rest, LAMBDA y : y.score > x.score)
             after == SelectSeq(rest, LAMBDA y : y.score <= x.score)
         IN  ahead \o <<x>> \o after

\* the children one slot of next_gen can get
Children(cfg, survivors) ==
    LET ps == {survivors[i] : i \in 1..Len(survivors)}
    IN  (IF cfg.crossover_rate > 0
         THEN {crossover(p1, p2) : p1 \in ps, p2 \in ps} ELSE {})
        \cup
        (IF cfg.crossover_rate < 1000
         THEN UNION {{create_mutation(p, keys, f, o) :
                         keys \in MutatedKeySets(cfg, p), f \in Factors, o \in Offsets} :
                     p \in ps}
         ELSE {})

\* evolve: survivor_count = max(2, int(len(evaluated) * survival_threshold))
\* and survivors = evaluated[:survivor_count], on the candidates in
\* descending score order
SurvivorsCeil(cfg, ranked) ==
    LET survivor_count ==
            Max2(2, (Len(ranked) * cfg.survival_threshold + 999) \div 1000)
    IN  SubSeq(ranked, 1, Min2(survivor_count, Len(ranked)))

Survivors(cfg, ranked) ==
    LET survivor_count == Max2(2, (Len(ranked) * cfg.survival_threshold) \div 1000)
    IN  SubSeq(ranked, 1, Min2(survivor_count, Len(ranked)))

\* evaluated.sort(key=lambda x: x[0], reverse=True), without the scores
Ranked(population) ==
    LET evaluated == SortDesc([i \in 1..Len(population) |->
                         [score |-> evaluate_mutation(population[i]), s |-> population[i]]])
    IN  [i \in 1..Len(evaluated) |-> evaluated[i].s]

\* Darwin1Algorithm.evolve(population): the populations it can return
evolveNoEarlyReturn(cfg, population) ==
    LET evaluated == SortDesc([i \in 1..Len(population) |->
                         [score |-> evaluate_mutation(population[i]), s |-> population[i]]])
        ranked    == [i \in 1..Len(evaluated) |-> evaluated[i].s]
        survivors == Survivors(cfg, ranked)
        elites    == SubSeq(ranked, 1, Min2(cfg.elite_count, Len(ranked)))
        slots     == Max2(0, cfg.population_size - Len(elites))
    IN  IF survivors = <<>> THEN {elites}
        ELSE {elites \o fill : fill \in [1..slots -> Children(cfg, survivors)]}

evolve(cfg, population) ==
    IF Len(population) < 2 THEN {population}
    ELSE
    LET evaluated == SortDesc([i \in 1..Len(population) |->
                         [score |-> evaluate_mutation(population[i]), s |-> population[i]]])
        ranked    == [i \in 1..Len(evaluated) |-> evaluated[i].s]
        survivors == Survivors(cfg, ranked)
        elites    == SubSeq(ranked, 1, Min2(cfg.elite_count, Len(ranked)))
        slots     == Max2(0, cfg.population_size - Len(elites))
    IN  {elites \o fill : fill \in [1..slots -> Children(cfg, survivors)]}

\* the objective functions callers pass: the demo's
\* x.get('threshold', 0.5) * x.get('weight', 0.5) and the orchestrator's
\* default lambda x: 0.5; the fitness in thousandths
Objective(name, x) ==
    IF name = "product"
    THEN (Milli(SolGet(x, "threshold", PyFloat(500)))
          * Milli(SolGet(x, "weight", PyFloat(500)))) \div 1000
    ELSE 500

\* -float('inf')
NegInf == [k |-> "float", inf |-> -1]

\* a > b on floats
FloatGt(a, b) ==
    IF a = NegInf THEN FALSE
    ELSE IF b = NegInf THEN TRUE
    ELSE a.milli > b.milli

RECURSIVE SumScores(_)
SumScores(scored) ==
    IF scored = <<>> THEN 0 ELSE Head(scored).score + SumScores(Tail(scored))

\* the body of run_evolution's loop up to the evolve call, for a non-empty
\* population: the best-ever pair and the history entry
run_generationOverwrites(best, population, objective, generation) ==
    LET evaluated == SortDesc([i \in 1..Len(population) |->
                         [score |-> Objective(objective, population[i]), s |-> population[i]]])
        current_best_fitness == PyFloat(evaluated[1].score)
        current_best         == evaluated[1].s
    IN  [best_fitness  |-> current_best_fitness,
         best_solution |-> current_best,
         entry |-> [generation         |-> generation,
                    best_fitness       |-> current_best_fitness,
                    avg_fitness        |-> PyFloat(SumScores(evaluated) \div Len(evaluated)),
                    best_solution_hash |-> hash_solution(current_best, 8)]]

run_generation(best, population, objective, generation) ==
    LET evaluated == SortDesc([i \in 1..Len(population) |->
                         [score |-> Objective(objective, population[i]), s |-> population[i]]])
        current_best_fitness == PyFloat(evaluated[1].score)
        current_best         == evaluated[1].s
        better               == FloatGt(current_best_fitness, best.best_fitness)
    IN  [best_fitness  |-> IF better THEN current_best_fitness ELSE best.best_fitness,
         best_solution |-> IF better THEN current_best ELSE best.best_solution,
         entry |-> [generation         |-> generation,
                    best_fitness       |-> current_best_fitness,
                    avg_fitness        |-> PyFloat(SumScores(evaluated) \div Len(evaluated)),
                    best_solution_hash |-> hash_solution(current_best, 8)]]

\* Darwin1Algorithm.evolve's update of self.metrics
evolve_metrics(metrics, population, next_gen) ==
    IF Len(population) < 2 THEN metrics
    ELSE LET best_score == evaluate_mutation(
                 CHOOSE s \in {population[i] : i \in 1..Len(population)} :
                    \A i \in 1..Len(population) :
                       evaluate_mutation(s) >= evaluate_mutation(population[i]))
         IN  [mutation_count       |-> metrics.mutation_count + Len(next_gen),
              successful_mutations |-> metrics.successful_mutations
                                       + (IF best_score > 5000 THEN 1 ELSE 0)]

\* ---- the runs the optimizer is exercised with ----
SolutionA == << <<"threshold", PyFloat(500)>>, <<"weight", PyFloat(500)>> >>
SolutionB == << <<"threshold", PyFloat(900)>>, <<"weight", PyFloat(900)>> >>
SolutionC == << <<"relevance_improvement", PyFloat(500)>>,
                <<"threshold", PyFloat(500)>>, <<"weight", PyFloat(100)>> >>

Tier1Populations ==
    {<<>>, << <<>> >>, <<SolutionA, SolutionB>>, <<SolutionC, SolutionA, SolutionB>>}

\* Darwin1Config: the defaults, with small population sizes and elite counts
Tier1Configs ==
    {[population_size    |-> sz.p,
      mutation_rate      |-> 150,
      crossover_rate     |-> 300,
      elite_count        |-> sz.e,
      generations        |-> 10,
      survival_threshold |-> 700,
      improvement_threshold |-> 50] :
        sz \in {[p |-> 2, e |-> 1], [p |-> 2, e |-> 4], [p |-> 3, e |-> 2]}}

MaxGenerations == 2

\* max_generations or self.config.generations
Generations(args, cfg) ==
    IF args.max_generations = 0 THEN cfg.generations ELSE args.max_generations

NoEvolve == [called |-> FALSE, input |-> <<>>, output |-> <<>>, survivors |-> <<>>]

\* Darwin1Algorithm(config) and the first lines of
\* run_evolution(initial_population, objective_function, max_generations)
InitTier1 ==
    /\ BusInit /\ Tier2Idle /\ HeapIdle /\ CodecIdle /\ OrchInit /\ Tier3Idle /\ RefineIdle
    /\ config \in Tier1Configs
    /\ callArgs \in [initial_population : Tier1Populations,
                     objective_function : {"product", "constant"},
                     max_generations    : {0, 1, MaxGenerations}]
    /\ callResult = [k |-> "running"]
    /\ current_population = callArgs.initial_population
    /\ gen = 0
    /\ best_solution = PyNone
    /\ best_fitness = NegInf
    /\ history = <<>>
    /\ evolved = [last |-> NoEvolve,
                  metrics |-> [mutation_count |-> 0, successful_mutations |-> 0]]

Tier1Frame ==
    UNCHANGED <<busVars, codecVars, orchVars, tier3Vars, refineVars, heapVars, tier2Vars>>

\* one iteration of "for gen in range(max_generations)"
DoGeneration ==
    /\ callResult.k = "running"
    /\ gen < Generations(callArgs, config)
    /\ gen < MaxGenerations
    /\ current_population # <<>>
    /\ LET res == run_generation([best_fitness |-> best_fitness,
                                  best_solution |-> best_solution],
                                 current_population, callArgs.objective_function, gen)
       IN  /\ best_fitness' = res.best_fitness
           /\ best_solution' = res.best_solution
           /\ history' = Append(history, res.entry)
    /\ \E next_gen \in evolve(config, current_population) :
          /\ current_population' = next_gen
          /\ evolved' = [last    |-> [called |-> TRUE, input |-> current_population,
                                      output |-> next_gen,
                                      survivors |->
                                          IF Len(current_population) < 2 THEN <<>>
                                          ELSE Survivors(config,
                                                         Ranked(current_population))],
                         metrics |-> evolve_metrics(evolved.metrics,
                                                    current_population, next_gen)]
    /\ gen' = gen + 1
    /\ UNCHANGED <<config, callArgs, callResult>>
    /\ Tier1Frame

\* an iteration on an empty population: evaluated[0] raises IndexError
DoGenerationRaises ==
    /\ callResult.k = "running"
    /\ gen < Generations(callArgs, config)
    /\ gen < MaxGenerations
    /\ current_population = <<>>
    /\ callResult' = [k |-> "raised", exception |-> "IndexError"]
    /\ UNCHANGED <<config, callArgs, current_population, gen, best_solution,
                   best_fitness, history, evolved>>
    /\ Tier1Frame

\* the return statement after the loop
DoReturn ==
    /\ callResult.k = "running"
    /\ gen = Generations(callArgs, config)
    /\ callResult' = [k |-> "returned",
                      best_solution |-> best_solution,
                      best_fitness  |-> best_fitness,
                      history       |-> history,
                      total_generations |-> Generations(callArgs, config),
                      final_population_size |-> Len(current_population)]
    /\ UNCHANGED <<config, callArgs, current_population, gen, best_solution,
                   best_fitness, history, evolved>>
    /\ Tier1Frame

NextTier1 == DoGeneration \/ DoGenerationRaises \/ DoReturn

SpecTier1 == InitTier1 /\ [][NextTier1]_vars

(***************************************************************************)
(* Claims about the Tier-1 optimizer                                       *)
(***************************************************************************)
\* C23 (as claimed): every evolve call returns a population whose length is
\* the configured population size.
C23_EvolveReturnsPopulationSize ==
    evolved.last.called => Len(evolved.last.output) = config.population_size

\* C23 (amended): an evolve call on fewer than two candidates returns the
\* input population; on two or more it returns population_size candidates,
\* or the elites alone (min(elite_count, input length) of them) when those
\* are more than population_size.
C23_EvolveLength ==
    evolved.last.called =>
       Len(evolved.last.output) =
          IF Len(evolved.last.input) < 2 THEN Len(evolved.last.input)
          ELSE Max2(config.population_size,
                    Min2(config.elite_count, Len(evolved.last.input)))

\* evolve filled a population of three from two elites and a crossover
\* child
C23_Witness ==
    /\ evolved.last.called
    /\ Len(evolved.last.input) = 3
    /\ config.elite_count = 2
    /\ Len(evolved.last.output) = config.population_size
    /\ SolHas(evolved.last.output[3], "crossover")

\* C24 (as claimed): the candidate reported as a generation's best (its
\* fingerprint is the history entry's best_solution_hash) is, unchanged,
\* one of the elites of the next generation's population.
C24_BestIsNextElite ==
    [][gen' = gen + 1 =>
          \E i \in 1..Min2(config.elite_count, Len(current_population')) :
             hash_solution(current_population'[i], 8)
                = history'[Len(history')].best_solution_hash]_vars

\* the largest per-generation best fitness a history records, in thousandths
RECURSIVE MaxBest(_)
MaxBest(h) ==
    IF Len(h) = 1 THEN h[1].best_fitness.milli
    ELSE Max2(h[1].best_fitness.milli, MaxBest(Tail(h)))

\* C25: the best-ever fitness run_evolution tracks never decreases from one
\* generation to the next; once a generation has run it is the maximum of
\* the best fitness values recorded in the history, and the value returned
\* is that maximum, paired with a candidate whose fitness it is.
C25_BestEverMonotone ==
    /\ [][gen' = gen + 1 => ~FloatGt(best_fitness, best_fitness')]_vars
    /\ [](history # <<>> => best_fitness = PyFloat(MaxBest(history)))
    /\ [](callResult.k = "returned" /\ callResult.history # <<>> =>
             /\ callResult.best_fitness = PyFloat(MaxBest(callResult.history))
             /\ PyFloat(Objective(callArgs.objective_function, callResult.best_solution))
                   = callResult.best_fitness)

\* a run of two generations returned; the second generation's best was
\* worse than the first's, which is the one returned
C25_Witness ==
    /\ callResult.k = "returned"
    /\ Len(callResult.history) = 2
    /\ callResult.history[2].best_fitness.milli < callResult.history[1].best_fitness.milli
    /\ callResult.best_fitness = callResult.history[1].best_fitness

(***************************************************************************)
(* SpecExpired: NeuralMessage.is_expired, one call per behaviour.          *)
(***************************************************************************)
\* NeuralMessage.is_expired when time.time() returns now (a float, in
\* thousandths, like the timestamp; ttl_seconds is an int)
is_expiredAtTtl(timestamp, ttl_seconds, now) ==
    (now.milli - timestamp.milli) >= ttl_seconds.i * 1000

is_expired(timestamp, ttl_seconds, now) ==
    (now.milli - timestamp.milli) > ttl_seconds.i * 1000

MaxClock == 6
MaxTtl   == 2

\* clock readings, half a second apart
ClockTimes == {PyFloat(500 * n) : n \in 0..MaxClock}

InitExpired ==
    /\ BusInit /\ Tier2Idle /\ Tier1Idle /\ HeapIdle /\ CodecIdle /\ OrchInit /\ Tier3Idle
    /\ RefineIdle
    /\ callArgs \in [timestamp   : ClockTimes,
                     ttl_seconds : {PyInt(n) : n \in 0..MaxTtl},
                     now         : ClockTimes]
    /\ callResult = [k |-> "pending"]

\* msg.is_expired()
DoIsExpired ==
    /\ callResult.k = "pending"
    /\ callResult' = [k |-> "returned",
                      value |-> is_expired(callArgs.timestamp, callArgs.ttl_seconds,
                                           callArgs.now)]
    /\ UNCHANGED <<busVars, codecVars, orchVars, tier3Vars, refineVars, tier1Vars,
                   heapVars, tier2Vars, callArgs>>

NextExpired == DoIsExpired

SpecExpired == InitExpired /\ [][NextExpired]_vars

\* C26: is_expired returns true exactly when now - timestamp is strictly
\* greater than ttl_seconds; an envelope whose age equals its ttl is not
\* expired.
C26_ExpiredStrictlyAfterTtl ==
    callResult.k = "returned" =>
       LET age == callArgs.now.milli - callArgs.timestamp.milli
           ttl == callArgs.ttl_seconds.i * 1000
       IN  /\ callResult.value = TRUE <=> age > ttl
           /\ age = ttl => callResult.value = FALSE

\* an envelope exactly one second old with a ttl of one second was asked
C26_Witness ==
    /\ callResult.k = "returned"
    /\ callArgs.ttl_seconds = PyInt(1)
    /\ callArgs.now.milli - callArgs.timestamp.milli = 1000
    /\ callResult.value = FALSE

(***************************************************************************)
(* Claims about what processing does to a submitted mutation               *)
(***************************************************************************)
\* C27: once submit_mutation has enqueued a mutation, no step of the
\* orchestrator (the Tier-1 / Tier-2 processing, Tier 3's apply_mutation)
\* changes its id, evolution type, component, payload, parent ids or
\* creation timestamp: only its review, signature and applied flag change.
C27_ProcessingFrame ==
    [][\A m \in Submitted :
          /\ mutations'[m].id = mutations[m].id
          /\ mutations'[m].evolution_type = mutations[m].evolution_type
          /\ mutations'[m].component = mutations[m].component
          /\ mutations'[m].payload = mutations[m].payload
          /\ mutations'[m].parent_mutations = mutations[m].parent_mutations
          /\ mutations'[m].timestamp = mutations[m].timestamp]_vars

\* a submitted mutation with a parent went through the loop and was
\* reviewed, signed and marked applied
C27_Witness ==
    \E m \in Submitted :
        /\ applyCount[m] = 1
        /\ mutations[m].applied
        /\ mutations[m].constitution_review # NoReview
        /\ mutations[m].darwin_signature # NoSignature
        /\ mutations[m].parent_mutations # <<>>
        /\ mutations[m].payload = PayloadGood

(***************************************************************************)
(* SpecScore: RelevanceScorer.score_relevance, one call per behaviour.     *)
(* Texts are sequences of characters; the float results are exact          *)
(* fractions [num, den]; the threshold is in thousandths.                  *)
(***************************************************************************)
\* str.find(word): the index of the first occurrence (the caller has
\* checked that there is one)
Find(text, word) ==
    CHOOSE i \in 0..(Len(text) - Len(word)) :
        /\ \A j \in 1..Len(word) : text[i + j] = word[j]
        /\ \A h \in 0..(i - 1) : \E j \in 1..Len(word) : text[h + j] # word[j]

\* str.count(word): the non-overlapping occurrences, scanning from the left
RECURSIVE CountOccurrences(_, _)
CountOccurrences(text, word) ==
    IF word = <<>> THEN Len(text) + 1
    ELSE IF ~Contains(text, word) THEN 0
    ELSE 1 + CountOccurrences(
                SubSeq(text, Find(text, word) + Len(word) + 1, Len(text)), word)

\* self.focus_weights.get(focus_mode, {'keyword_match': 0.5, ...})
\* ['keyword_match'], in tenths
KeywordMatchWeight(focus_mode) ==
    CASE focus_mode = "RELEVANCE"     -> 6
      [] focus_mode = "EXTRACTION"    -> 7
      [] focus_mode = "ANALYSIS"      -> 3
      [] focus_mode = "SUMMARIZATION" -> 4
      [] focus_mode = "NAVIGATION"    -> 8
      [] OTHER                        -> 5

\* (position_score + frequency_score) / 2 of one matched keyword, as the
\* numerator of a fraction over 10 * len(content)
KeywordScore(content, keyword) ==
    LET content_lower == Lower(content)
        count    == CountOccurrences(content_lower, Lower(keyword))
        position == Find(content_lower, Lower(keyword))
    IN  (Max2(Len(content), 1) - position) * 5
        + Min2(count, 5) * Max2(Len(content), 1)

RECURSIVE SumSeq(_)
SumSeq(s) == IF s = <<>> THEN 0 ELSE Head(s) + SumSeq(Tail(s))

\* RelevanceScorer.score_relevance
score_relevanceCaseSensitive(content, keywords, focus_mode, threshold) ==
    IF content = <<>> \/ keywords = <<>>
    THEN [score |-> [num |-> 1, den |-> 2], relevant |-> TRUE,
          matching_keywords |-> <<>>, reasoning |-> [text |-> "no content"]]
    ELSE
    LET matched == SelectSeq(keywords, LAMBDA keyword : Contains(content, keyword))
        keyword_scores == [i \in 1..Len(matched) |-> KeywordScore(content, matched[i])]
        avg_num == SumSeq(keyword_scores)
        avg_den == 10 * Max2(Len(content), 1) * Max2(Len(matched), 1)
        final_num == avg_num * KeywordMatchWeight(focus_mode)
        final_den == avg_den * 10
    IN  [score    |-> IF final_num <= final_den THEN [num |-> final_num, den |-> final_den]
                                                ELSE [num |-> 1, den |-> 1],
         relevant |-> final_num * 1000 >= threshold * final_den,
         matching_keywords |-> matched,
         reasoning |-> [matched |-> Len(matched), of |-> Len(keywords)]]

score_relevance(content, keywords, focus_mode, threshold) ==
    IF content = <<>> \/ keywords = <<>>
    THEN [score |-> [num |-> 1, den |-> 2], relevant |-> TRUE,
          matching_keywords |-> <<>>, reasoning |-> [text |-> "no content"]]
    ELSE
    LET content_lower == Lower(content)
        matched == SelectSeq(keywords,
                             LAMBDA keyword : Contains(content_lower, Lower(keyword)))
        keyword_scores == [i \in 1..Len(matched) |-> KeywordScore(content, matched[i])]
        avg_num == SumSeq(keyword_scores)
        avg_den == 10 * Max2(Len(content), 1) * Max2(Len(matched), 1)
        final_num == avg_num * KeywordMatchWeight(focus_mode)
        final_den == avg_den * 10
    IN  [score    |-> IF final_num <= final_den THEN [num |-> final_num, den |-> final_den]
                                                ELSE [num |-> 1, den |-> 1],
         relevant |-> final_num * 1000 >= threshold * final_den,
         matching_keywords |-> matched,
         reasoning |-> [matched |-> Len(matched), of |-> Len(keywords)]]

MaxContent  == 3
MaxKeywords == 2

ScoreAlphabet == {"a", "A", "p"}

\* the texts of at most n characters
TextsUpTo(n) == UNION {[1..len -> ScoreAlphabet] : len \in 0..n}

ScoreKeywords == {<<>>, <<"a">>, <<"p">>, <<"A", "p">>}

ScoreThresholds == {100, 360, 700}

InitScore ==
    /\ BusInit /\ Tier2Idle /\ Tier1Idle /\ HeapIdle /\ CodecIdle /\ OrchInit /\ Tier3Idle
    /\ RefineIdle
    /\ callArgs \in [content    : TextsUpTo(MaxContent),
                     keywords   : UNION {[1..len -> ScoreKeywords] : len \in 0..MaxKeywords},
                     focus_mode : {"RELEVANCE", "ANALYSIS", "NAVIGATION", "REASONING"},
                     threshold  : ScoreThresholds]
    /\ callResult = [k |-> "pending"]

\* await scorer.score_relevance(content, keywords, focus_mode, threshold)
DoScore ==
    /\ callResult.k = "pending"
    /\ callResult' = [k |-> "returned",
                      value |-> score_relevance(callArgs.content, callArgs.keywords,
                                                callArgs.focus_mode, callArgs.threshold)]
    /\ UNCHANGED <<busVars, codecVars, orchVars, tier3Vars, refineVars, tier1Vars,
                   heapVars, tier2Vars, callArgs>>

NextScore == DoScore

SpecScore == InitScore /\ [][NextScore]_vars

\* the keyword occurs in the content when case is ignored
OccursIgnoringCase(content, keyword) ==
    \E i \in 1..(Len(content) - Len(keyword) + 1) :
        Lower(SubSeq(content, i, i + Len(keyword) - 1)) = Lower(keyword)

\* C28: score_relevance returns the neutral result (score 0.5, relevant, no
\* matches) when content or keywords is empty; otherwise its matched list
\* is exactly the keywords that occur in content when case is ignored, in
\* input order, and relevant is true exactly when the returned score is at
\* least the threshold.
C28_ScoreRelevance ==
    callResult.k = "returned" =>
       LET r == callResult.value
       IN  IF callArgs.content = <<>> \/ callArgs.keywords = <<>>
           THEN /\ r.score.num * 2 = r.score.den
                /\ r.relevant = TRUE
                /\ r.matching_keywords = <<>>
           ELSE /\ r.matching_keywords =
                      SelectSeq(callArgs.keywords,
                                LAMBDA kw : OccursIgnoringCase(callArgs.content, kw))
                /\ r.relevant = TRUE <=>
                      r.score.num * 1000 >= callArgs.threshold * r.score.den

\* a call matched the second keyword only, ignoring case, and scored
\* exactly the threshold 0.36
C28_Witness ==
    /\ callResult.k = "returned"
    /\ callArgs.content = <<"A">>
    /\ callArgs.keywords = << <<"p">>, <<"a">> >>
    /\ callArgs.threshold = 360
    /\ callResult.value.matching_keywords = << <<"a">> >>
    /\ callResult.value.score.num * 1000 = 360 * callResult.value.score.den
    /\ callResult.value.relevant

(***************************************************************************)
(* SpecLLM: DarwinLLM._call_llm and _parse_evolution as evolve_strategy    *)
(* runs them (lines 441-442), one call of each per behaviour.  Texts are   *)
(* PyStr values holding sequences of characters.                           *)
(***************************************************************************)
\* what the collaborator does with the request: requests.post raises
\* (connection_error, timeout), response.json() raises (not_json), the body
\* decodes to a list (json_list), to an object without a 'response' field
\* (no_field), with "response": null (field_null), or with a response text
\* (text)
TransportFailures == {"connection_error", "timeout"}
DecodeFailures    == {"not_json"}
LLMBehaviours ==
    TransportFailures \cup DecodeFailures \cup {"json_list", "no_field", "field_null", "text"}

\* DarwinLLM._call_llm: what the call returns; every Exception raised
\* inside the try block, result.get on a list included, ends in return '{}'
call_llmEmptyOnFailure(behaviour, text) ==
    CASE behaviour \in TransportFailures \cup DecodeFailures -> PyStr(<<>>)
      [] behaviour = "json_list"  -> PyStr(<<"{", "}">>)
      [] behaviour = "no_field"   -> PyStr(<<>>)
      [] behaviour = "field_null" -> PyNone
      [] behaviour = "text"       -> PyStr(text)

call_llm(behaviour, text) ==
    CASE behaviour \in TransportFailures \cup DecodeFailures -> PyStr(<<"{", "}">>)
      [] behaviour = "json_list"  -> PyStr(<<"{", "}">>)
      [] behaviour = "no_field"   -> PyStr(<<>>)
      [] behaviour = "field_null" -> PyNone
      [] behaviour = "text"       -> PyStr(text)

\* the member text "a":1
MemberText == <<"\"", "a", "\"", ":", "1">>

\* the tokens of JSON syntax among the tokens of a text
JsonSpecial == {"{", "}", "\"", ":", ","}

\* the JSON value that starts at tokens[1]: its Python value and the number
\* of tokens it takes, 0 when none of true, false, 1 or a string starts
\* there
JsonValue(tokens) ==
    LET none == [len |-> 0, value |-> PyNone]
    IN  IF tokens = <<>> THEN none
        ELSE CASE tokens[1] = "true"  -> [len |-> 1, value |-> PyBool(TRUE)]
               [] tokens[1] = "false" -> [len |-> 1, value |-> PyBool(FALSE)]
               [] tokens[1] = "1"     -> [len |-> 1, value |-> PyInt(1)]
               [] tokens[1] = "\""    ->
                    LET closes == {q \in 2..Len(tokens) : tokens[q] = "\""}
                    IN  IF closes = {} THEN none
                        ELSE LET q == CHOOSE a \in closes : \A b \in closes : a <= b
                             IN  [len |-> q, value |-> PyStr(SubSeq(tokens, 2, q - 1))]
               [] OTHER -> none

\* the members "key":value, separated by commas, of a JSON object whose
\* keys are one token each; a key given twice keeps its first place and
\* its last value
RECURSIVE JsonMembers(_)
JsonMembers(tokens) ==
    LET fail == [ok |-> FALSE, pairs |-> <<>>]
    IN  IF \/ Len(tokens) < 5
           \/ tokens[1] # "\""
           \/ tokens[2] \in JsonSpecial
           \/ tokens[3] # "\""
           \/ tokens[4] # ":"
        THEN fail
        ELSE
        LET key  == PyStr(tokens[2])
            v    == JsonValue(SubSeq(tokens, 5, Len(tokens)))
            rest == SubSeq(tokens, 5 + v.len, Len(tokens))
        IN  IF v.len = 0 THEN fail
            ELSE IF rest = <<>> THEN [ok |-> TRUE, pairs |-> << <<key, v.value>> >>]
            ELSE IF rest[1] # "," THEN fail
            ELSE LET more == JsonMembers(Tail(rest))
                     IsOther(pair) == pair[1] # key
                 IN  IF ~more.ok THEN fail
                     ELSE [ok |-> TRUE,
                           pairs |-> << <<key, SolGet(more.pairs, key, v.value)>> >>
                                     \o SelectSeq(more.pairs, IsOther)]

\* json.loads of a block "{" ... "}" without inner braces: the dict of its
\* members, or JSONDecodeError
JsonLoads(block) ==
    LET inner   == SubSeq(block, 2, Len(block) - 1)
        members == JsonMembers(inner)
    IN  CASE inner = <<>> -> [ok |-> TRUE, value |-> PyDict(<<>>)]
          [] members.ok   -> [ok |-> TRUE, value |-> PyDict(members.pairs)]
          [] OTHER        -> [ok |-> FALSE, value |-> PyNone]

\* text[i..j] is a match of \{[^{}]*\}
IsBlock(text, i, j) ==
    /\ i < j
    /\ text[i] = "{"
    /\ text[j] = "}"
    /\ \A h \in (i + 1)..(j - 1) : text[h] \notin {"{", "}"}

\* DarwinLLM._parse_evolution: the dict returned, or the TypeError that
\* re.search raises when the response is not a string
parse_evolution(response) ==
    IF response.k # "str" THEN [k |-> "raised", exception |-> "TypeError"]
    ELSE
    LET text   == response.s
        starts == {i \in 1..Len(text) : \E j \in 1..Len(text) : IsBlock(text, i, j)}
        raw    == PyDict(<< <<PyStr("raw_response"), response>> >>)
    IN  IF starts = {} THEN [k |-> "parsed", evolved |-> raw]
        ELSE LET i == CHOOSE a \in starts : \A b \in starts : a <= b
                 j == CHOOSE b \in 1..Len(text) : IsBlock(text, i, b)
                 loaded == JsonLoads(SubSeq(text, i, j))
             IN  [k |-> "parsed", evolved |-> IF loaded.ok THEN loaded.value ELSE raw]

MaxResponse == 3

LLMAlphabet == {"{", "}", "a"}

\* the response texts: every short text over the alphabet, and a proposal
\* with one member, bare and inside prose
LLMTexts ==
    UNION {[1..len -> LLMAlphabet] : len \in 0..MaxResponse}
    \cup {<<"{">> \o MemberText \o <<"}">>,
          <<"a", "}">> \o <<"{">> \o MemberText \o <<"}">> \o <<"a">>}

InitLLM ==
    /\ BusInit /\ Tier2Idle /\ Tier1Idle /\ HeapIdle /\ CodecIdle /\ OrchInit /\ Tier3Idle
    /\ RefineIdle
    /\ callArgs \in {[behaviour |-> b, text |-> <<>>] : b \in LLMBehaviours \ {"text"}}
                    \cup {[behaviour |-> "text", text |-> t] : t \in LLMTexts}
    /\ callResult = [k |-> "pending"]

LLMFrame ==
    UNCHANGED <<busVars, codecVars, orchVars, tier3Vars, refineVars, tier1Vars,
                heapVars, tier2Vars, callArgs>>

\* response = await self._call_llm(evolution_prompt)
DoCallLLM ==
    /\ callResult.k = "pending"
    /\ callResult' = [k |-> "called",
                      response |-> call_llm(callArgs.behaviour, callArgs.text)]
    /\ LLMFrame

\* evolved = self._parse_evolution(response)
DoParseEvolution ==
    /\ callResult.k = "called"
    /\ callResult' = parse_evolution(callResult.response)
    /\ LLMFrame

NextLLM == DoCallLLM \/ DoParseEvolution

SpecLLM == InitLLM /\ [][NextLLM]_vars

\* the collaborator call failed in transport or decoding
LLMFailed == callArgs.behaviour \in TransportFailures \cup DecodeFailures

\* C29 (as claimed): when the collaborator call fails in transport or
\* decoding, _call_llm returns the empty string, and no error reaches the
\* caller.
C29_FailureYieldsEmptyString ==
    LLMFailed =>
       /\ callResult.k = "called" => callResult.response = PyStr(<<>>)
       /\ callResult.k # "raised"

\* C29 (amended): when the collaborator call fails in transport or
\* decoding, _call_llm returns the text "{}", no error reaches the caller,
\* and the caller goes on with the empty proposal parsed from it.
C29_FailureYieldsEmptyObject ==
    LLMFailed =>
       /\ callResult.k = "called" => callResult.response = PyStr(<<"{", "}">>)
       /\ callResult.k = "parsed" => callResult.evolved = PyDict(<<>>)
       /\ callResult.k # "raised"

\* the request timed out and evolve_strategy has parsed what _call_llm
\* returned
C29_Witness ==
    /\ callArgs.behaviour = "timeout"
    /\ callResult.k = "parsed"
    /\ callResult.evolved = PyDict(<<>>)

\* the characters of the texts the refiner's envelopes carry
Chars(s) ==
    CASE s = "price" -> <<"p", "r", "i", "c", "e">>
      [] s = "title" -> <<"t", "i", "t", "l", "e">>
      [] s = "aaa keyword bbb" ->
            <<"a", "a", "a", " ", "k", "e", "y", "w", "o", "r", "d", " ", "b", "b", "b">>
      [] s = "" -> <<>>

\* what the scorer returns for the envelope's text and focus, as
\* _apply_relevance_filter asks it (lines 149-157)
RelevanceOf(msg) ==
    score_relevance(Chars(DictGet(msg.payload, PyStr("html")).s),
                    [i \in 1..Len(msg.focus.keywords.items) |->
                        Chars(msg.focus.keywords.items[i].s)],
                    msg.focus.mode,
                    msg.focus.relevance_threshold.milli)

\* C30 (as claimed): a refine_en_route call on a relevance-mode envelope
\* with a text field blanks the text, sets the filtered flag and appends one
\* refinement entry (size before: the text length, size after: 0) when the
\* text is scored not relevant; when it is scored relevant the text is not
\* blanked and the flag is not set.
C30_RelevanceFilterBlanks ==
    [][RefineCalled /\ envelope.focus.mode = "RELEVANCE"
          /\ DictHas(envelope.payload, PyStr("html")) =>
          LET text == DictGet(envelope.payload, PyStr("html"))
              trail == envelope'.context.refinements.items
          IN  IF ~RelevanceOf(envelope).relevant
              THEN /\ DictGet(envelope'.payload, PyStr("html")) = PyStr("")
                   /\ DictHas(envelope'.payload, PyStr("_filtered"))
                   /\ Len(trail) = Len(envelope.context.refinements.items) + 1
                   /\ DictGet(trail[Len(trail)], PyStr("original_size"))
                         = PyInt(Len(Chars(text.s)))
                   /\ DictGet(trail[Len(trail)], PyStr("filtered_size")) = PyInt(0)
              ELSE /\ text.s # "" => DictGet(envelope'.payload, PyStr("html")) # PyStr("")
                   /\ ~DictHas(envelope'.payload, PyStr("_filtered"))]_vars

(***************************************************************************)
(* Claims about the spirit check of the Tier-3 review                      *)
(***************************************************************************)
\* the candidate is flagged restrictive (a truthy 'restrictive' value)
FlaggedRestrictive == Truthy(Get(candidate, "restrictive", FALSE))

\* the candidate declares itself permeable or carries an efficiency or
\* optimization marker
DeclaresOpen ==
    \/ Truthy(Get(candidate, "permeable_ai", FALSE))
    \/ "efficiency" \in DOMAIN candidate
    \/ "optimization" \in DOMAIN candidate

\* C31 (as claimed): the review holds the spirit issue exactly when the
\* candidate is flagged restrictive and neither declares itself permeable
\* nor carries an efficiency or optimization marker; a candidate that is
\* not flagged restrictive never gets it.
C31_SpiritOnlyWhenRestrictive ==
    reviewed # NoReview =>
        /\ CountKind(reviewed.issues, "Violates spirit") = 1
              <=> (FlaggedRestrictive /\ ~DeclaresOpen)
        /\ ~FlaggedRestrictive => CountKind(reviewed.issues, "Violates spirit") = 0

\* C31 (amended): the review holds the spirit issue, once, exactly when the
\* candidate is flagged restrictive, or is not flagged restrictive and
\* neither declares itself permeable nor carries an efficiency or
\* optimization marker.
C31_SpiritWhenRestrictiveOrNotOpen ==
    reviewed # NoReview =>
        CountKind(reviewed.issues, "Violates spirit") =
            IF FlaggedRestrictive \/ ~DeclaresOpen THEN 1 ELSE 0

\* a restrictive candidate that declares itself permeable and carries all
\* the required markers was reviewed, and got the spirit issue alone
C31_Witness ==
    /\ reviewed # NoReview
    /\ candidate = [permeable_ai |-> TRUE, fastest_protocol |-> TRUE,
                    dna_carried |-> TRUE, refine_en_route |-> TRUE,
                    restrictive |-> TRUE]
    /\ reviewed.issues = << <<"Violates spirit", "of open permeability">> >>

(***************************************************************************)
(* DarwinLLM.evolve_strategy: review, patch and store                      *)
(*                                                                         *)
(* A text is a sequence of tokens.  A marker name is one token, and no     *)
(* token of the texts in use contains another token as a substring, so a   *)
(* marker occurs in a text exactly when it is one of the text's tokens.    *)
(* A dict is its sequence of <<key, value>> pairs in insertion order, the  *)
(* keys being PyStr(name) with name one token.                             *)
(***************************************************************************)
\* word in text
InText(word, text) == \E i \in 1..Len(text) : text[i] = word

\* repr of a value, and str of a dict: "{'key': value, ...}"
RECURSIVE Repr(_)
Repr(v) ==
    CASE v.k = "none"  -> <<"None">>
      [] v.k = "bool"  -> IF v.b THEN <<"True">> ELSE <<"False">>
      [] v.k = "int"   -> <<ToString(v.i)>>
      [] v.k = "float" -> <<ToString(v.milli)>>
      [] v.k = "str"   -> <<"'">> \o v.s \o <<"'">>
      [] v.k = "list"  ->
            <<"[">> \o Join(<<", ">>, [i \in 1..Len(v.items) |-> Repr(v.items[i])])
                    \o <<"]">>
      [] v.k = "dict"  ->
            <<"{">> \o Join(<<", ">>,
                            [i \in 1..Len(v.pairs) |->
                                <<"'", v.pairs[i][1].s, "'", ": ">>
                                \o Repr(v.pairs[i][2])])
                    \o <<"}">>

\* f"Missing required: {required}" and f"Violates constraint: {forbidden}",
\* an issue being the pair <<kind, marker>>
IssueStr(issue) == PyStr(<<issue[1], ": ", issue[2]>>)

\* DarwinLLM._review_constitution
review_constitution(evolution) ==
    LET text == Repr(evolution)
        IsMissing(r) == ~InText(r, text)
        IsPresent(f) == InText(f, text)
        missing   == SelectSeq(CONSTITUTION_MUST_HAVES, IsMissing)
        forbidden == SelectSeq(CONSTITUTION_CANNOT_HAVES, IsPresent)
        issues ==
            [n \in 1..Len(missing) |-> <<"Missing required", missing[n]>>]
            \o [n \in 1..Len(forbidden) |-> <<"Violates constraint", forbidden[n]>>]
    IN  [approved |-> issues = <<>>, issues |-> issues]

\* for required in CONSTITUTION_MUST_HAVES, from the n-th on:
\*     if required not in str(patched): patched[required] = True
RECURSIVE PatchRequired(_, _)
PatchRequired(patched, n) ==
    IF n > Len(CONSTITUTION_MUST_HAVES) THEN patched
    ELSE LET required == CONSTITUTION_MUST_HAVES[n]
         IN  PatchRequired(
                 IF ~InText(required, Repr(PyDict(patched)))
                 THEN SolSet(patched, PyStr(required), PyBool(TRUE))
                 ELSE patched,
                 n + 1)

\* for forbidden in CONSTITUTION_CANNOT_HAVES:
\*     if forbidden in patched: del patched[forbidden]
PatchForbidden(patched) ==
    LET Stays(pair) == \A n \in 1..Len(CONSTITUTION_CANNOT_HAVES) :
                          pair[1] # PyStr(CONSTITUTION_CANNOT_HAVES[n])
    IN  SelectSeq(patched, Stays)

\* DarwinLLM._patch_for_constitution
patch_for_constitution(evolution, rejection) ==
    LET patched == PatchForbidden(PatchRequired(evolution.pairs, 1))
        tagged  == SolSet(patched, PyStr("constitution_patched"), PyBool(TRUE))
        issues  == PyList([n \in 1..Len(rejection.issues) |->
                               IssueStr(rejection.issues[n])])
    IN  PyDict(SolSet(tagged, PyStr("original_issues"), issues))

\* DarwinLLM.evolve_strategy, from the reply of the collaborator on: what
\* the call returns or raises, and the evolution_history it leaves
evolve_strategy(stored, task_type, total_samples, behaviour, text) ==
    IF total_samples < min_samples_for_evolution
    THEN [result  |-> [k |-> "returned",
                       value |-> PyDict(<< <<PyStr("status"),
                                             PyStr(<<"insufficient_data">>)>> >>)],
          history |-> stored]
    ELSE
    LET parsed == parse_evolution(call_llm(behaviour, text))
    IN  IF parsed.k = "raised"
        THEN [result |-> parsed, history |-> stored]
        ELSE
        LET rejection == review_constitution(parsed.evolved)
            checked   == IF ~rejection.approved
                         THEN patch_for_constitution(parsed.evolved, rejection)
                         ELSE parsed.evolved
            stamped   ==
                SolSet(SolSet(SolSet(checked.pairs,
                    PyStr("timestamp"), PyFloat(Tier1Now)),
                    PyStr("task_type"), PyStr(<<task_type>>)),
                    PyStr("sample_count"), PyInt(total_samples))
        IN  [result  |-> [k |-> "returned", value |-> PyDict(stamped),
                          parsed |-> parsed.evolved, verdict |-> rejection],
             history |-> Append(stored, PyDict(stamped))]

\* the number of evolve_strategy calls made in one run
MaxEvolve == 1

\* the JSON text of an object: its members "key":value between braces
JsonText(pairs) ==
    LET ValueText(v) ==
            CASE v.k = "bool" -> IF v.b THEN <<"true">> ELSE <<"false">>
              [] v.k = "int"  -> <<ToString(v.i)>>
              [] v.k = "str"  -> <<"\"">> \o v.s \o <<"\"">>
    IN  <<"{">> \o Join(<<",">>, [i \in 1..Len(pairs) |->
                                    <<"\"", pairs[i][1].s, "\"", ":">>
                                    \o ValueText(pairs[i][2])])
                \o <<"}">>

\* zero or one member
Opt(key, values) ==
    {<<>>} \cup {<< <<PyStr(key), v>> >> : v \in values}

\* the proposals the collaborator sends: permeable_ai absent, true or
\* false; the three other required markers absent or present; a forbidden
\* marker, the restrictive flag and an efficiency marker absent or present;
\* and proposals that name markers only inside a text value
Tier2Objects ==
    {p \o g \o f \o r \o e :
        p \in Opt("permeable_ai", {PyBool(TRUE), PyBool(FALSE)}),
        g \in {<<>>, << <<PyStr("fastest_protocol"), PyBool(TRUE)>>,
                        <<PyStr("dna_carried"), PyBool(TRUE)>>,
                        <<PyStr("refine_en_route"), PyInt(1)>> >>},
        f \in Opt("vendor_lockin", {PyBool(TRUE)}),
        r \in Opt("restrictive", {PyBool(TRUE)}),
        e \in Opt("efficiency", {PyInt(1)})}
    \cup
    {<< <<PyStr("reasoning"), PyStr(words)>> >> :
        words \in {<<"no", "black_box_ai">>,
                   <<"permeable_ai", "fastest_protocol", "dna_carried",
                     "refine_en_route">>}}

\* the replies: a proposal as JSON, bare or inside prose, and prose
\* without any block
Tier2Texts ==
    {JsonText(o) : o \in Tier2Objects}
    \cup {<<"use">> \o JsonText(<< <<PyStr("vendor_lockin"), PyBool(TRUE)>> >>)
                    \o <<"now">>,
          <<"avoid", "single_point_of_failure">>,
          <<"{", "a">>}

Tier2Replies ==
    {[behaviour |-> b, text |-> <<>>] : b \in LLMBehaviours \ {"text"}}
    \cup {[behaviour |-> "text", text |-> t] : t \in Tier2Texts}

InitTier2 ==
    /\ BusInit /\ Tier1Idle /\ HeapIdle /\ CodecIdle /\ OrchInit /\ Tier3Idle
    /\ RefineIdle
    /\ callArgs = [k |-> "none"]
    /\ callResult = [k |-> "pending"]
    /\ evolution_history = <<>>

\* await darwin2.evolve_strategy(task_type, successes, failures)
DoEvolveStrategy ==
    /\ Len(evolution_history) < MaxEvolve
    /\ \E total_samples \in {min_samples_for_evolution - 1, min_samples_for_evolution},
          reply \in Tier2Replies :
          LET call == evolve_strategy(evolution_history, "scraping", total_samples,
                                      reply.behaviour, reply.text)
          IN  /\ callArgs' = [k |-> "evolve_strategy", total_samples |-> total_samples,
                              behaviour |-> reply.behaviour, text |-> reply.text]
              /\ callResult' = call.result
              /\ evolution_history' = call.history
    /\ UNCHANGED <<busVars, codecVars, orchVars, tier3Vars, refineVars, tier1Vars,
                   heapVars>>

NextTier2 == DoEvolveStrategy

SpecTier2 == InitTier2 /\ [][NextTier2]_vars

\* the call reviewed a parsed proposal
Tier2Reviewed == callResult.k = "returned" /\ "verdict" \in DOMAIN callResult

\* the proposal as the mapping Tier 3 reviews: key -> value, a bool value
\* being the boolean itself
AsMapping(evolution) ==
    LET keys == {evolution.pairs[i][1].s : i \in 1..Len(evolution.pairs)}
    IN  [key \in keys |->
            LET v == SolGet(evolution.pairs, PyStr(key), PyNone)
            IN  IF v.k = "bool" THEN v.b ELSE v]

\* C32: the review evolve_strategy runs on a parsed proposal gives the same
\* verdict and the same issues as Tier 3's review_mutation of that proposal.
C32_Tier2ReviewIsTier3Review ==
    Tier2Reviewed =>
        LET tier3 == review_mutation(AsMapping(callResult.parsed))
        IN  /\ callResult.verdict.approved = tier3.approved
            /\ callResult.verdict.issues = tier3.issues

\* C33: every strategy in evolution_history passes the check that was
\* applied to it: no required marker missing and no forbidden marker
\* present.
C33_StoredStrategiesPassCheck ==
    \A n \in 1..Len(evolution_history) :
        review_constitution(evolution_history[n]).approved

\* the first n candidates of a population in descending evaluate order
TopRanked(population, n) ==
    SubSeq(Ranked(population), 1, Min2(n, Len(population)))

\* the candidate is a crossover of two of the parents, or a mutation of the
\* one of them that its parent_hash names
DerivedFrom(x, parents) ==
    \/ /\ config.crossover_rate > 0
       /\ \E i, j \in 1..Len(parents) : x = crossover(parents[i], parents[j])
    \/ /\ config.crossover_rate < 1000
       /\ \E i \in 1..Len(parents) :
             /\ SolGet(x, "parent_hash", PyNone) = hash_solution(parents[i], 16)
             /\ \E keys \in MutatedKeySets(config, parents[i]),
                   f \in Factors, o \in Offsets :
                   x = create_mutation(parents[i], keys, f, o)

\* the members of the last evolve call's output after its elites are
\* children of the given candidates
NonElitesFrom(parents) ==
    \A i \in 1..Len(evolved.last.output) :
        i > Min2(config.elite_count, Len(evolved.last.input))
            => DerivedFrom(evolved.last.output[i], parents)

\* C34 (as claimed): evolve keeps as survivors exactly the top
\* ceil(|population| * survival_threshold) candidates in descending
\* evaluate order, never fewer than 2, and every non-elite member of the
\* next generation is derived only from those.
C34_SurvivorsTopCeil ==
    (evolved.last.called /\ Len(evolved.last.input) >= 2) =>
        LET n == Max2(2, (Len(evolved.last.input) * config.survival_threshold + 999)
                             \div 1000)
            top == TopRanked(evolved.last.input, n)
        IN  /\ evolved.last.survivors = top
            /\ Len(top) >= 2
            /\ NonElitesFrom(top)

\* C34 (amended): evolve keeps as survivors exactly the top
\* max(2, floor(|population| * survival_threshold)) candidates in
\* descending evaluate order, and every non-elite member of the next
\* generation is derived only from those.
C34_SurvivorsTopFloor ==
    (evolved.last.called /\ Len(evolved.last.input) >= 2) =>
        LET n == Max2(2, (Len(evolved.last.input) * config.survival_threshold)
                             \div 1000)
            top == TopRanked(evolved.last.input, n)
        IN  /\ evolved.last.survivors = top
            /\ Len(top) >= 2
            /\ NonElitesFrom(top)

\* evolve ran on three candidates, kept two survivors and filled the next
\* generation with a child of them
C34_Witness ==
    /\ evolved.last.called
    /\ Len(evolved.last.input) = 3
    /\ Len(evolved.last.survivors) = 2
    /\ Len(evolved.last.output) > Min2(config.elite_count, 3)

(***************************************************************************)
(* An envelope is refined on its way, then encoded and decoded             *)
(***************************************************************************)
InitTransit ==
    /\ BusInit /\ Tier2Idle /\ CallIdle /\ Tier1Idle /\ HeapIdle /\ OrchInit /\ Tier3Idle
    /\ envelope \in CodecEnvelopes
    /\ refinement_stats = [total_messages |-> 0, avg_compression |-> 0,
                           avg_relevance |-> 0, filtered_count |-> 0]
    /\ refineOutcome = "none"
    /\ env = "none"
    /\ wire = "none"
    /\ decoded = "none"
    /\ cpc = "new"

\* data = envelope.to_binary(), on the envelope as the refiner left it
EncodeEnvelope ==
    /\ cpc = "new"
    /\ env' = envelope
    /\ wire' = to_binary(envelope)
    /\ cpc' = "encoded"
    /\ UNCHANGED decoded
    /\ UNCHANGED <<busVars, orchVars, tier3Vars, refineVars, callVars, tier1Vars,
                   heapVars, tier2Vars>>

\* the envelope is refined before it is encoded
RefineOnTheWay == cpc = "new" /\ DoRefine

NextTransit == RefineOnTheWay \/ EncodeEnvelope \/ Decode

SpecTransit == InitTransit /\ [][NextTransit]_vars

\* the decoded envelope has the hop count, the relevance score and the
\* refinement entries, in order, of the encoded one
AuditRoundTrip ==
    /\ decoded.k = "message"
    /\ decoded.context.hops = env.context.hops
    /\ decoded.context.relevance_score = env.context.relevance_score
    /\ decoded.context.refinements = env.context.refinements

RECURSIVE StringKeyed(_)
StringKeyed(v) ==
    CASE v.k \in {"list", "tuple"} -> \A n \in 1..Len(v.items) : StringKeyed(v.items[n])
      [] v.k = "dict"  -> \A n \in 1..Len(v.pairs) :
                             /\ v.pairs[n][1].k = "str"
                             /\ StringKeyed(v.pairs[n][2])
      [] OTHER         -> TRUE

ContextBlockKeys == {"os", "cs", "rs", "fe", "fm", "h", "r"}

C37_ActiveInSubmissionOrder ==
    /\ \A i, j \in 1..Len(active_mutations) :
          i < j => active_mutations[i] < active_mutations[j]
    /\ \A i \in 1..Len(active_mutations) :
          /\ active_mutations[i] \in Submitted
          /\ getCount[active_mutations[i]] >= 1
    /\ \A m \in Submitted :
          (\A i \in 1..Len(active_mutations) : active_mutations[i] # m)
              => (InQueue(m) \/ m \in dropped)

\* two mutations were submitted before either was processed, and both are
\* in the active list
C37_Witness ==
    /\ active_mutations = <<1, 2>>
    /\ getCount = <<1, 1>>
    /\ dropped = {}

(***************************************************************************)
(* The orchestrator under the event loop's scheduling: a task that was     *)
(* created gets its first run, and a loop waiting in queue.get() while the *)
(* queue holds a mutation receives one                                     *)
(***************************************************************************)
LoopRuns(l) == l \in 1..Len(loops) /\ (LoopBegin(l) \/ LoopGet(l))

\* the submissions of the scheduling runs: one that is processed and one
\* whose Tier-1 step raises
LiveSubmissions ==
    {<<"DNA_OPTIMIZATION", PayloadGood>>,
     <<"DNA_OPTIMIZATION", PayloadEmptyPopulation>>}

DoSubmitLive ==
    /\ Len(mutations) < MaxSubmit
    /\ \E sub \in LiveSubmissions : SubmitMutation(sub[1], sub[2], <<>>)

NextOrchLive ==
    DoStart \/ DoStop \/ DoSubmitLive \/ DoLoopBegin \/ DoLoopTimeout \/ DoLoopGet

SpecOrchLive ==
    /\ InitOrch
    /\ [][NextOrchLive]_vars
    /\ \A l \in 1..MaxStart : WF_vars(LoopRuns(l))

\* a step that submits a mutation
SubmitStep == Len(mutations') = Len(mutations) + 1

\* C38: a submitted mutation that waits in the queue while the run flag is
\* set (so the orchestrator was started) is eventually dequeued by the
\* loop, unless the run flag is cleared; submit is possible in every state,
\* whatever the loops are doing, and a submit step enqueues the mutation
\* without dequeuing or processing anything.
C38_SubmittedEventuallyProcessed ==
    /\ \A m \in 1..MaxSubmit :
          (InQueue(m) /\ running) ~> (~InQueue(m) \/ ~running)
    /\ [](Len(mutations) < MaxSubmit => ENABLED DoSubmitLive)
    /\ [][SubmitStep =>
             /\ evolution_tasks' = Append(evolution_tasks, Len(mutations'))
             /\ \A m \in Submitted : getCount'[m] = getCount[m]
             /\ active_mutations' = active_mutations
             /\ dropped' = dropped
             /\ loops' = loops]_vars

\* a mutation submitted before start() and one submitted after it were
\* both dequeued while the run flag was set, one of them dropped
C38_Witness ==
    /\ running
    /\ Len(mutations) = 2
    /\ evolution_tasks = <<>>
    /\ getCount = <<1, 1>>
    /\ dropped # {}
    /\ Len(active_mutations) = 1

\* the score of a call on non-empty content and keywords is at most the
\* mode's keyword-match weight, and at most 0.8 in any mode
ScoreAtMostWeight ==
    (/\ callResult.k = "returned"
     /\ callArgs.content # <<>>
     /\ callArgs.keywords # <<>>) =>
        LET score == callResult.value.score
        IN  /\ score.num * 10 <= KeywordMatchWeight(callArgs.focus_mode) * score.den
            /\ score.num * 10 <= 8 * score.den

\* C39: for non-empty content and keywords the score is at most the
\* keyword-match weight (0.6 in relevance mode), so a refine_en_route call
\* on a relevance-mode envelope with threshold 0.7, a non-empty text field
\* and non-empty keywords takes the not-relevant branch and blanks the
\* text.
C39_RelevanceModeAlwaysBlanks ==
    [][(/\ RefineCalled
        /\ envelope.focus.mode = "RELEVANCE"
        /\ envelope.focus.relevance_threshold = PyFloat(700)
        /\ envelope.focus.keywords.items # <<>>
        /\ DictHas(envelope.payload, PyStr("html"))
        /\ DictGet(envelope.payload, PyStr("html")).s # "") =>
          LET scored == RelevanceOf(envelope)
          IN  /\ scored.score.num * 10 <= 6 * scored.score.den
              /\ ~scored.relevant
              /\ DictGet(envelope'.payload, PyStr("html")) = PyStr("")]_vars

====
